---- MODULE Spec2Model ----
(***************************************************************************)
(* A model of purplequery's dataframe nodes (dataframe_node.py) and of the *)
(* expression nodes they evaluate (evaluatable_node.py).                   *)
(*                                                                         *)
(* Encoding of Python and pandas values:                                   *)
(*   - a str of a table path is the sequence of its dot-free segments,     *)
(*     "p.d.t" being <<"p","d","t">>, so that str.split('.') is something  *)
(*     the model computes; None is the empty sequence <<>>; the names of   *)
(*     columns and selectors, which are never split, are plain strings and *)
(*     a field path is the tuple of its names;                             *)
(*   - a cell of a DataFrame is <<v>> for the number v and <<>> for        *)
(*     NaN/NULL; True is 1 and False is 0, as in Python (bool is a         *)
(*     subclass of int);                                                   *)
(*   - an index label is a tuple of numbers: <<i>> for the i-th row of a   *)
(*     RangeIndex, the tuple of the grouping keys after a group by;        *)
(*   - a call returns Ok(value) or Raise(exception, message, arguments).   *)
(***************************************************************************)
EXTENDS Integers, Sequences, FiniteSets, TLC

VARIABLES
    setop_call,     \* the last SetOperation.get_dataframe call and its outcome
    tref,           \* the TableReference node (its path attribute)
    tref_built,     \* the path that node was constructed with
    tref_call,      \* the last TableReference.get_dataframe call and its outcome
    select,         \* the Select node (its attributes)
    select_new,     \* the Select(...) call that built it, and its outcome
    select_call,    \* the last Select.get_dataframe call and its outcome
    query,          \* the QueryExpression node (its attributes)
    query_call,     \* the last QueryExpression.get_dataframe call and its outcome
    node_call       \* the last call on an expression node and its outcome

vars == <<setop_call, tref, tref_built, tref_call, select, select_new, select_call,
          query, query_call, node_call>>

(***************************************************************************)
(* Python and pandas basics                                                *)
(***************************************************************************)
None == <<>>
NaN == <<>>
Idle == [op |-> "idle"]

Ok(value) == [ok |-> TRUE, value |-> value]
Raise(exc, msg, args) == [ok |-> FALSE, exc |-> exc, msg |-> msg, args |-> args]

Raised(outcome, exc, msg) ==
    /\ ~outcome.ok
    /\ outcome.exc = exc
    /\ outcome.msg = msg

Range(s) == {s[i] : i \in DOMAIN s}

\* Lexical order of names; sorted(...) of a collection of str keys.
NameOrder == <<"a", "b", "c", "d", "d1", "d2", "p1", "p2", "t1", "t2">>
NameRank(n) == CHOOSE i \in DOMAIN NameOrder : NameOrder[i] = n

RECURSIVE StrLess(_, _)
StrLess(s, t) ==
    IF s = <<>> THEN t # <<>>
    ELSE IF t = <<>> THEN FALSE
    ELSE IF s[1] # t[1] THEN NameRank(s[1]) < NameRank(t[1])
    ELSE StrLess(Tail(s), Tail(t))

\* sorted(S) for a collection S of str values.
RECURSIVE sorted(_)
sorted(S) ==
    IF S = {} THEN <<>>
    ELSE LET m == CHOOSE x \in S : \A y \in S \ {x} : StrLess(x, y)
         IN <<m>> \o sorted(S \ {m})

\* The names of S in lexical order.
RECURSIVE SortedNames(_)
SortedNames(S) ==
    IF S = {} THEN <<>>
    ELSE LET m == CHOOSE x \in S : \A y \in S \ {x} : NameRank(x) < NameRank(y)
         IN <<m>> \o SortedNames(S \ {m})

(***************************************************************************)
(* bq_types: the coercion lattice and TypedDataFrame                        *)
(***************************************************************************)
CannotCoerce == "CannotCoerce"

implicitly_coerce(t1, t2) ==
    IF t1 = t2 THEN t1
    ELSE IF {t1, t2} = {"INTEGER", "FLOAT"} THEN "FLOAT"
    ELSE CannotCoerce

DataFrame(columns, index, data) == [columns |-> columns, index |-> index, data |-> data]
TypedDataFrame(dataframe, types) == [dataframe |-> dataframe, types |-> types]

\* The RangeIndex of an n-row DataFrame built from a list of rows.
RangeIndex(n) == [i \in 1..n |-> <<i - 1>>]

(***************************************************************************)
(* pandas.concat([left, right]) along the rows: the columns are aligned by  *)
(* NAME. Equal column lists are kept; otherwise the result has the union of *)
(* the column names, sorted (legacy_pandas: pandas before 1.0) or in order  *)
(* of appearance, and a row has NaN in the columns its frame does not have. *)
(***************************************************************************)
ColumnUnion(left_columns, right_columns, legacy_pandas) ==
    IF left_columns = right_columns THEN left_columns
    ELSE IF legacy_pandas
         THEN SortedNames(Range(left_columns) \cup Range(right_columns))
    ELSE left_columns \o SelectSeq(right_columns, LAMBDA c : c \notin Range(left_columns))

Reindex(frame, columns) ==
    [r \in DOMAIN frame.data |->
        [c \in DOMAIN columns |->
            IF columns[c] \in Range(frame.columns)
            THEN frame.data[r][CHOOSE j \in DOMAIN frame.columns :
                                   frame.columns[j] = columns[c]]
            ELSE NaN]]

pd_concat(left, right, legacy_pandas) ==
    LET columns == ColumnUnion(left.columns, right.columns, legacy_pandas)
    IN DataFrame(columns,
                 left.index \o right.index,
                 Reindex(left, columns) \o Reindex(right, columns))

(***************************************************************************)
(* SetOperation                                                            *)
(***************************************************************************)
DEFAULT_TABLE_NAME == None

\* SetOperation.get_dataframe with the column types coerced (over the zipped
\* columns) before the column counts are compared.
SetOperation_coerce_first(left_dataframe, set_operator, right_dataframe, legacy_pandas) ==
    LET num_left_columns == Len(left_dataframe.types)
        num_right_columns == Len(right_dataframe.types)
        zipped == IF num_left_columns < num_right_columns
                  THEN num_left_columns ELSE num_right_columns
        combined_types == [i \in 1..zipped |->
                              implicitly_coerce(left_dataframe.types[i],
                                                right_dataframe.types[i])]
    IN IF \E i \in 1..zipped : combined_types[i] = CannotCoerce
       THEN Raise("ValueError", "Cannot implicitly coerce the given types", <<>>)
       ELSE IF num_left_columns # num_right_columns
       THEN Raise("ValueError", "Queries in UNION ALL have mismatched column count",
                  <<num_left_columns, num_right_columns>>)
       ELSE IF set_operator = "UNION_ALL"
       THEN Ok([table |-> TypedDataFrame(pd_concat(left_dataframe.dataframe,
                                                   right_dataframe.dataframe, legacy_pandas),
                                         combined_types),
                name |-> DEFAULT_TABLE_NAME])
       ELSE Raise("NotImplementedError", "set operation not implemented", <<set_operator>>)

\* SetOperation.get_dataframe, given what the two sub-queries returned.
SetOperation_get_dataframe(left_dataframe, set_operator, right_dataframe, legacy_pandas) ==
    LET num_left_columns == Len(left_dataframe.types)
        num_right_columns == Len(right_dataframe.types)
        combined_types == [i \in 1..num_left_columns |->
                              implicitly_coerce(left_dataframe.types[i],
                                                right_dataframe.types[i])]
    IN IF num_left_columns # num_right_columns
       THEN Raise("ValueError", "Queries in UNION ALL have mismatched column count",
                  <<num_left_columns, num_right_columns>>)
       ELSE IF \E i \in 1..num_left_columns : combined_types[i] = CannotCoerce
       THEN Raise("ValueError", "Cannot implicitly coerce the given types", <<>>)
       ELSE IF set_operator = "UNION_ALL"
       THEN Ok([table |-> TypedDataFrame(pd_concat(left_dataframe.dataframe,
                                                   right_dataframe.dataframe, legacy_pandas),
                                         combined_types),
                name |-> DEFAULT_TABLE_NAME])
       ELSE Raise("NotImplementedError", "set operation not implemented", <<set_operator>>)

(***************************************************************************)
(* The sub-query results a SetOperation is evaluated on                     *)
(***************************************************************************)
MaxSetColumns == 2
MaxSetRows == 2

ColumnNames == {"a", "b"}
ScalarTypes == {"INTEGER", "FLOAT", "STRING"}
SetOperators == {"UNION_ALL", "UNION_DISTINCT", "INTERSECT_DISTINCT"}

\* Lists of distinct column names, one per column.
ColumnLists ==
    {cs \in UNION {[1..k -> ColumnNames] : k \in 1..MaxSetColumns} :
        \A i, j \in DOMAIN cs : i # j => cs[i] # cs[j]}

\* The result of a sub-query: n rows over the given columns; the cell of row r
\* and column c holds base + 10 * r + c, so that every cell of the two sides of
\* a set operation is told apart.
SubQueryResult(columns, types, n, base) ==
    TypedDataFrame(
        DataFrame(columns, RangeIndex(n),
                  [r \in 1..n |-> [c \in DOMAIN columns |-> <<base + 10 * r + c>>]]),
        types)

SubQueryResults(base) ==
    {SubQueryResult(cs, ts, n, base) :
        cs \in ColumnLists, ts \in UNION {[1..k -> ScalarTypes] : k \in 1..MaxSetColumns},
        n \in 0..MaxSetRows}

LeftBase == 100
RightBase == 200

LeftResults == {t \in SubQueryResults(LeftBase) : Len(t.types) = Len(t.dataframe.columns)}
RightResults == {t \in SubQueryResults(RightBase) : Len(t.types) = Len(t.dataframe.columns)}

(***************************************************************************)
(* TableReference                                                          *)
(***************************************************************************)
\* str.split('.')
split(s) == [i \in DOMAIN s |-> <<s[i]>>]

\* TableReference.__init__: the value of self.path.
TableReference_init(path) ==
    IF Len(path) = 1 THEN split(path[1]) ELSE path

\* datasets[project_id][dataset_id][table_id], table_id
CatalogLookup(path, datasets) ==
    IF Len(path) # 3
    THEN Raise("ValueError", "wrong number of values to unpack", <<Len(path)>>)
    ELSE IF path[1] \notin DOMAIN datasets THEN Raise("KeyError", "", <<path[1]>>)
    ELSE IF path[2] \notin DOMAIN datasets[path[1]] THEN Raise("KeyError", "", <<path[2]>>)
    ELSE IF path[3] \notin DOMAIN datasets[path[1]][path[2]]
    THEN Raise("KeyError", "", <<path[3]>>)
    ELSE Ok([table |-> datasets[path[1]][path[2]][path[3]], name |-> path[3]])

\* get_dataframe completing a short path with the catalog's first project and
\* that project's first dataset, however many there are.
TableReference_first_candidate(self_path, datasets) ==
    LET project == sorted(DOMAIN datasets)[1]
        path == IF Len(self_path) = 1
                THEN <<project, sorted(DOMAIN datasets[project])[1]>> \o self_path
                ELSE IF Len(self_path) = 2 THEN <<project>> \o self_path
                ELSE self_path
    IN [path |-> path, outcome |-> CatalogLookup(path, datasets)]

\* TableReference.get_dataframe: the value of self.path after the call and the
\* call's outcome.
TableReference_get_dataframe(self_path, datasets) ==
    IF Len(self_path) < 3
    THEN IF Cardinality(DOMAIN datasets) # 1
         THEN [path |-> self_path,
               outcome |-> Raise("ValueError",
                                 "Non-fully-qualified table with multiple possible projects",
                                 <<self_path, sorted(DOMAIN datasets)>>)]
         ELSE LET project == CHOOSE project_id \in DOMAIN datasets : TRUE
              IN IF Len(self_path) = 1
                 THEN IF Cardinality(DOMAIN datasets[project]) # 1
                      THEN [path |-> self_path,
                            outcome |-> Raise(
                                "ValueError",
                                "Non-fully-qualified table with multiple possible datasets",
                                <<self_path, sorted(DOMAIN datasets[project])>>)]
                      ELSE LET dataset == CHOOSE dataset_id \in DOMAIN datasets[project] : TRUE
                               path == <<project, dataset>> \o self_path
                           IN [path |-> path, outcome |-> CatalogLookup(path, datasets)]
                 ELSE LET path == <<project>> \o self_path
                      IN [path |-> path, outcome |-> CatalogLookup(path, datasets)]
    ELSE [path |-> self_path, outcome |-> CatalogLookup(self_path, datasets)]

(***************************************************************************)
(* Syntax tree nodes (evaluatable_node.py, bq_abstract_syntax_tree.py)      *)
(***************************************************************************)
EMPTY_NODE == [k |-> "_EmptyNode"]

Field(path) == [k |-> "Field", path |-> path]
Value(value, type_) == [k |-> "Value", value |-> value, type_ |-> type_]
\* Selector.__init__ leaves position None; no_position stands for that None.
no_position == 0
\* An alias is a str; no_alias stands for the EMPTY_NODE of a selector without.
no_alias == ""
\* The EMPTY_NODE of a Select without GROUP BY, where a list of groupers is
\* expected otherwise.
no_group_by == <<EMPTY_NODE>>
\* None where a record is expected otherwise.
NoneObject == [k |-> "None"]
Selector(selector, alias) ==
    [k |-> "Selector", child |-> selector, alias |-> alias, position |-> no_position]
FunctionCall(function_name, expression) ==
    [k |-> "_AggregatingFunctionCall", function |-> function_name, child |-> expression]
BinaryExpression(left, operator, right) ==
    [k |-> "BinaryExpression", left |-> left, operator |-> operator, right |-> right]
GroupedBy(expression) == [k |-> "GroupedBy", child |-> expression]

\* isinstance(value, int) for the value of a literal: Python's bool is a
\* subclass of int.
isinstance_int(value_node) == value_node.type_ \in {"INTEGER", "BOOLEAN"}

\* sequence[i] for a Python list and a 0-based, possibly negative, index.
PyIndexError == [k |-> "IndexError"]
PyIndex(sequence, i) ==
    IF 0 <= i /\ i < Len(sequence) THEN sequence[i + 1]
    ELSE IF i < 0 /\ 0 - i <= Len(sequence) THEN sequence[Len(sequence) + i + 1]
    ELSE PyIndexError

\* Whether sequence[i] is an element and no IndexError.
PyIndexInRange(sequence, i) ==
    (0 <= i /\ i < Len(sequence)) \/ (i < 0 /\ 0 - i <= Len(sequence))

\* '_f{}'.format(position)
PositionalNames == <<"_f1", "_f2", "_f3", "_f4">>
NoName == ""

\* name() of an expression: the last part of a field's path, nothing for the
\* other expressions.
RECURSIVE name(_)
name(node) ==
    IF node.k = "Field" THEN node.path[Len(node.path)]
    ELSE IF node.k = "GroupedBy" THEN name(node.child)
    ELSE IF node.k = "Selector" THEN
        (IF node.alias # no_alias THEN node.alias
         ELSE IF name(node.child) # NoName THEN name(node.child)
         ELSE PositionalNames[node.position])
    ELSE NoName

\* Selector.name() with the name of the child before the alias.
Selector_name_child_first(self) ==
    IF self.position # no_position /\ name(self.child) # NoName THEN Ok(name(self.child))
    ELSE IF self.alias # no_alias THEN Ok(self.alias)
    ELSE IF self.position = no_position
    THEN Raise("RuntimeError", "Accessing name of Selector before position is populated",
               <<>>)
    ELSE Ok(PositionalNames[self.position])

\* Selector.name()
Selector_name(self) ==
    IF self.alias # no_alias THEN Ok(self.alias)
    ELSE IF self.position = no_position
    THEN Raise("RuntimeError", "Accessing name of Selector before position is populated",
               <<>>)
    ELSE Ok(IF name(self.child) # NoName THEN name(self.child)
            ELSE PositionalNames[self.position])

\* Selector.copy
Selector_copy(self, new_child) == Selector(new_child, Selector_name(self).value)

(***************************************************************************)
(* EvaluationContext (bq_abstract_syntax_tree.py)                           *)
(***************************************************************************)
TypedSeries(series, type_) == [series |-> series, type_ |-> type_]
\* A pandas Series; groupby says that it is a SeriesGroupBy, and keys then
\* holds the group key of every row.
Series(index, data, series_name) ==
    [index |-> index, data |-> data, name |-> series_name, groupby |-> FALSE, keys |-> <<>>]
SeriesGroupBy(index, data, series_name, keys) ==
    [index |-> index, data |-> data, name |-> series_name, groupby |-> TRUE, keys |-> keys]

\* A context: its table (column ids are canonical paths), the columns the table
\* is grouped by (by; <<>> when it is a plain DataFrame), the group by paths,
\* the selector names and the outer context (NoneObject when there is none).
EvaluationContext(table, by, group_by_paths, selector_names, subcontext) ==
    [table |-> table, by |-> by, group_by_paths |-> group_by_paths,
     selector_names |-> selector_names, subcontext |-> subcontext]

IsGrouped(context) == context.by # <<>>

ColumnPosition(frame, column) == CHOOSE j \in DOMAIN frame.columns : frame.columns[j] = column

\* Lexical order of index labels (tuples of numbers).
RECURSIVE LabelLess(_, _)
LabelLess(s, t) ==
    IF s = <<>> THEN t # <<>>
    ELSE IF t = <<>> THEN FALSE
    ELSE IF s[1] # t[1] THEN s[1] < t[1]
    ELSE LabelLess(Tail(s), Tail(t))

RECURSIVE SortedLabels(_)
SortedLabels(S) ==
    IF S = {} THEN <<>>
    ELSE LET m == CHOOSE x \in S : \A y \in S \ {x} : LabelLess(x, y)
         IN <<m>> \o SortedLabels(S \ {m})

\* The group key of every row of a frame grouped by the columns by.
RowKeys(frame, by) ==
    [r \in DOMAIN frame.data |->
        [i \in DOMAIN by |-> frame.data[r][ColumnPosition(frame, by[i])][1]]]

\* The keys of the groups, in the sorted order pandas.groupby gives them.
GroupKeys(frame, by) == SortedLabels(Range(RowKeys(frame, by)))

\* len(context.table.dataframe) and _get_index(context.table.dataframe)
_get_index(context) ==
    IF IsGrouped(context) THEN GroupKeys(context.table.dataframe, context.by)
    ELSE context.table.dataframe.index

\* The columns of the context's own table that a path names.
Matches(context, path) ==
    {c \in Range(context.table.dataframe.columns) :
        \/ c = path
        \/ Len(path) = 1 /\ c[Len(c)] = path[1]}

Unresolved == <<>>

\* get_canonical_path: the one column of the context a path names, else the
\* selector of that name, else what the outer context resolves it to.
RECURSIVE get_canonical_path(_, _)
get_canonical_path(context, path) ==
    IF Cardinality(Matches(context, path)) = 1
    THEN CHOOSE c \in Matches(context, path) : TRUE
    ELSE IF Cardinality(Matches(context, path)) > 1 THEN Unresolved
    ELSE IF Len(path) = 1 /\ path[1] \in Range(context.selector_names) THEN path
    ELSE IF context.subcontext # NoneObject THEN get_canonical_path(context.subcontext, path)
    ELSE Unresolved

\* lookup: the column at a canonical path, a SeriesGroupBy when the table that
\* holds it is grouped.
RECURSIVE lookup(_, _)
lookup(context, path) ==
    LET frame == context.table.dataframe
    IN IF path \in Range(frame.columns)
       THEN LET j == ColumnPosition(frame, path)
                data == [r \in DOMAIN frame.data |-> frame.data[r][j]]
            IN Ok(TypedSeries(
                   IF IsGrouped(context)
                   THEN SeriesGroupBy(frame.index, data, path[Len(path)],
                                      RowKeys(frame, context.by))
                   ELSE Series(frame.index, data, path[Len(path)]),
                   context.table.types[j]))
       ELSE IF context.subcontext # NoneObject THEN lookup(context.subcontext, path)
       ELSE Raise("ValueError", "field is not present in any from'ed tables", <<path>>)

(***************************************************************************)
(* Evaluation of expressions                                               *)
(***************************************************************************)
RECURSIVE SumCells(_)
SumCells(cells) ==
    IF cells = <<>> THEN 0
    ELSE (IF Head(cells) = NaN THEN 0 ELSE Head(cells)[1]) + SumCells(Tail(cells))

\* Sum, Max, Min, Count(distinct=False) and Array_agg(EMPTY_NODE, EMPTY_NODE,
\* EMPTY_NODE, EMPTY_NODE) .aggregating_function on one column of cells; NaN is
\* skipped by all but ARRAY_AGG, whose value is the tuple of the cells.
aggregating_function(function, cells) ==
    LET numbers == {cells[i][1] : i \in {j \in DOMAIN cells : cells[j] # NaN}}
    IN IF function = "SUM" THEN <<SumCells(cells)>>
       ELSE IF function = "COUNT"
       THEN <<Cardinality({j \in DOMAIN cells : cells[j] # NaN})>>
       ELSE IF function = "ARRAY_AGG" THEN <<cells>>
       ELSE IF numbers = {} THEN NaN
       ELSE IF function = "MAX" THEN <<CHOOSE x \in numbers : \A y \in numbers : y <= x>>
       ELSE <<CHOOSE x \in numbers : \A y \in numbers : x <= y>>

\* The cells of the rows of a SeriesGroupBy that belong to the group of key.
GroupCells(series, key) ==
    LET rows == SelectSeq([r \in DOMAIN series.data |-> r], LAMBDA r : series.keys[r] = key)
    IN [i \in DOMAIN rows |-> series.data[rows[i]]]

\* function_info.compute_result_type of one argument type: _result_type where
\* the function has one, BQArray of the type for Array_agg, else the type.
compute_result_type(function, type_) ==
    IF function \in {"COUNT", "ROW_NUMBER"} THEN "INTEGER"
    ELSE IF function = "ARRAY_AGG"
    THEN (CASE type_ = "INTEGER" -> "ARRAY<INTEGER>"
            [] type_ = "FLOAT" -> "ARRAY<FLOAT>"
            [] type_ = "STRING" -> "ARRAY<STRING>"
            [] type_ = "BOOLEAN" -> "ARRAY<BOOLEAN>")
    ELSE type_

\* Series.dropna() and Series.drop_duplicates() on a column of cells: the
\* first of equal cells is kept, NaN cells are equal to one another.
dropna(cells) == SelectSeq(cells, LAMBDA cell : cell # NaN)

RECURSIVE drop_duplicates(_)
drop_duplicates(cells) ==
    IF cells = <<>> THEN <<>>
    ELSE LET earlier == drop_duplicates(SubSeq(cells, 1, Len(cells) - 1))
         IN IF cells[Len(cells)] \in Range(earlier) THEN earlier
            ELSE Append(earlier, cells[Len(cells)])

\* Count.aggregating_function without value.dropna().
Count_counting_nulls(distinct, cells) ==
    IF distinct THEN <<Cardinality(Range(cells))>> ELSE <<Len(cells)>>

\* Count.aggregating_function
Count_aggregating_function(distinct, cells) ==
    LET value == dropna(cells)
    IN IF distinct THEN <<Cardinality(Range(value))>> ELSE <<Len(value)>>

\* Array_agg.aggregating_function on the one column of values
Array_agg_aggregating_function(self, cells) ==
    IF self.order_by # <<EMPTY_NODE>>
    THEN Raise("NotImplementedError", "ARRAY_AGG(ORDER BY) is not implemented", <<>>)
    ELSE IF self.limit # EMPTY_NODE
    THEN Raise("NotImplementedError", "ARRAY_AGG(LIMIT) is not implemented", <<>>)
    ELSE Ok(<<IF self.drop_nulls
              THEN dropna(IF self.distinct THEN drop_duplicates(cells) ELSE cells)
              ELSE IF self.distinct THEN drop_duplicates(cells) ELSE cells>>)

\* self.function_info.aggregating_function([values]) of an aggregating call:
\* the cell it returns or the error it raises.
function_info_aggregating_function(self, cells) ==
    IF self.function = "COUNT" THEN Ok(Count_aggregating_function(self.distinct, cells))
    ELSE IF self.function = "ARRAY_AGG" THEN Array_agg_aggregating_function(self, cells)
    ELSE Ok(aggregating_function(self.function, cells))

\* The Series of the values a function returned, or the error it raised.
apply_result(self, argument, index, series_name, results) ==
    IF \E g \in DOMAIN results : ~results[g].ok
    THEN results[CHOOSE g \in DOMAIN results :
                     ~results[g].ok /\ \A h \in 1..(g - 1) : results[h].ok]
    ELSE Ok(TypedSeries(Series(index, [g \in DOMAIN results |-> results[g].value],
                               series_name),
                        compute_result_type(self.function, argument.type_)))

\* _AggregatingFunctionCall._evaluate_node: one row.
_evaluate_node(self, argument) ==
    apply_result(self, argument, RangeIndex(1), NoName,
                 <<function_info_aggregating_function(self, argument.series.data)>>)

\* SeriesGroupBy.apply: the function is given the Series of every group, group
\* by group, and is not called when there is no group.
SeriesGroupBy_apply(self, argument, group_keys) ==
    apply_result(self, argument, group_keys, argument.series.name,
                 [g \in DOMAIN group_keys |->
                     function_info_aggregating_function(
                         self, GroupCells(argument.series, group_keys[g]))])

\* values[0].apply(...) reducing the whole column for every group.
_evaluate_node_over_all_rows(self, argument) ==
    apply_result(self, argument, SortedLabels(Range(argument.series.keys)),
                 argument.series.name,
                 [g \in DOMAIN SortedLabels(Range(argument.series.keys)) |->
                     function_info_aggregating_function(self, argument.series.data)])

\* _AggregatingFunctionCall._evaluate_node_in_group_by: values[0].apply(...),
\* one row per group of a SeriesGroupBy. On a plain Series apply gives the
\* function the elements one by one, Python objects without the methods of a
\* Series; on no element it is not called.
_evaluate_node_in_group_by(self, argument) ==
    IF argument.series.groupby
    THEN SeriesGroupBy_apply(self, argument, SortedLabels(Range(argument.series.keys)))
    ELSE IF argument.series.data = <<>>
    THEN Ok(TypedSeries(argument.series, compute_result_type(self.function, argument.type_)))
    ELSE IF self.function = "ARRAY_AGG"
    THEN Raise("TypeError", "object is not iterable", <<>>)
    ELSE Raise("AttributeError", "object has no attribute", <<self.function>>)

\* GroupedBy: the value of a grouping column, one row per group.
GroupedBy_evaluate(argument) ==
    LET series == argument.series
        group_keys == SortedLabels(Range(series.keys))
    IN IF series.groupby
       THEN TypedSeries(
                Series(group_keys,
                       [g \in DOMAIN group_keys |-> GroupCells(series, group_keys[g])[1]],
                       series.name),
                argument.type_)
       ELSE argument

\* BinaryExpression on two evaluated operands: element by element.
BinaryExpression_evaluate(left, operator, right) ==
    IF left.series.groupby \/ right.series.groupby
    THEN Raise("TypeError", "unsupported operand type(s): SeriesGroupBy", <<operator>>)
    ELSE IF left.series.index # right.series.index
    THEN Raise("ValueError", "Can only compare identically-labeled Series objects",
               <<operator>>)
    ELSE LET l == left.series.data
             r == right.series.data
             cell(i) ==
                 IF operator = "+"
                 THEN (IF l[i] = NaN \/ r[i] = NaN THEN NaN ELSE <<l[i][1] + r[i][1]>>)
                 ELSE IF l[i] = NaN \/ r[i] = NaN THEN <<0>>
                 ELSE IF operator = ">" THEN (IF l[i][1] > r[i][1] THEN <<1>> ELSE <<0>>)
                 ELSE (IF l[i][1] = r[i][1] THEN <<1>> ELSE <<0>>)
         IN Ok(TypedSeries(Series(left.series.index, [i \in DOMAIN l |-> cell(i)], NoName),
                           IF operator = "+" THEN implicitly_coerce(left.type_, right.type_)
                           ELSE "BOOLEAN"))

\* node.evaluate(context). The argument of an aggregating call in a grouped
\* context is the column of its values row by row, grouped as the table is.
RECURSIVE evaluate(_, _)
evaluate(node, context) ==
    IF node.k = "Value"
    THEN Ok(TypedSeries(Series(_get_index(context),
                               [i \in DOMAIN _get_index(context) |-> <<node.value>>],
                               NoName),
                        node.type_))
    ELSE IF node.k = "Field"
    THEN (IF get_canonical_path(context, node.path) = Unresolved
          THEN Raise("ValueError", "field is not present in any from'ed tables",
                     <<node.path>>)
          ELSE lookup(context, get_canonical_path(context, node.path)))
    ELSE IF node.k = "GroupedBy"
    THEN LET path == IF node.child.k = "Field" THEN node.child.path
                     ELSE <<name(node.child)>>
             column == IF get_canonical_path(context, path) = Unresolved
                       THEN Raise("ValueError", "field is not present in any from'ed tables",
                                  <<path>>)
                       ELSE lookup(context, get_canonical_path(context, path))
         IN IF column.ok
            THEN Ok(TypedSeries([GroupedBy_evaluate(column.value).series
                                    EXCEPT !.name = name(node.child)],
                                column.value.type_))
            ELSE column
    ELSE IF node.k = "Selector"
    THEN LET result == evaluate(node.child, context)
         IN IF ~result.ok THEN result
            ELSE IF ~Selector_name(node).ok THEN Selector_name(node)
            ELSE Ok(TypedSeries([result.value.series EXCEPT !.name = Selector_name(node).value],
                                result.value.type_))
    ELSE IF node.k = "_AggregatingFunctionCall"
    THEN LET argument == evaluate(node.child, [context EXCEPT !.by = <<>>])
             grouped(series) ==
                 IF IsGrouped(context) /\ ~series.groupby
                 THEN SeriesGroupBy(series.index, series.data, series.name,
                                    RowKeys(context.table.dataframe, context.by))
                 ELSE series
         IN IF ~argument.ok THEN argument
            ELSE IF context.group_by_paths # <<>>
            THEN _evaluate_node_in_group_by(
                     node,
                     TypedSeries(grouped(argument.value.series), argument.value.type_))
            ELSE _evaluate_node(node, argument.value)
    ELSE LET left == evaluate(node.left, context)
             right == evaluate(node.right, context)
         IN IF ~left.ok THEN left
            ELSE IF ~right.ok THEN right
            ELSE BinaryExpression_evaluate(left.value, node.operator, right.value)

\* node.mark_grouped_by(group_by_paths, context)
RECURSIVE mark_grouped_by(_, _, _)
mark_grouped_by(node, group_by_paths, context) ==
    IF node.k = "Selector"
    THEN (IF Selector_name(node).ok
             /\ get_canonical_path(context, <<Selector_name(node).value>>)
                    \in Range(group_by_paths)
          THEN GroupedBy(node)
          ELSE Selector_copy(node, mark_grouped_by(node.child, group_by_paths, context)))
    ELSE IF node.k = "Field"
    THEN (IF get_canonical_path(context, node.path) \in Range(group_by_paths)
          THEN GroupedBy(node)
          ELSE node)
    ELSE IF node.k = "BinaryExpression"
    THEN BinaryExpression(mark_grouped_by(node.left, group_by_paths, context),
                          node.operator,
                          mark_grouped_by(node.right, group_by_paths, context))
    ELSE node

(***************************************************************************)
(* Select                                                                  *)
(***************************************************************************)
\* DataFrame.loc with the complement of a boolean Series.
Loc_complement(frame, rows_to_keep, legacy_pandas) ==
    LET series == rows_to_keep.series
        rows == [r \in DOMAIN frame.data |-> r]
        holds(r) == series.data[CHOOSE i \in DOMAIN series.index :
                                    series.index[i] = frame.index[r]] # <<1>>
        kept == SelectSeq(rows, holds)
    IN Ok(DataFrame(frame.columns,
                    [i \in DOMAIN kept |-> frame.index[kept[i]]],
                    [i \in DOMAIN kept |-> frame.data[kept[i]]]))

\* DataFrame.loc[series]: rows_to_keep is an evaluated TypedSeries. A boolean
\* Series selects, label by label, the rows at which it holds True; any other
\* Series is a list of index labels. A label the index lacks raises KeyError,
\* except that pandas before 1.0 (legacy_pandas) gives a NaN row for it as long
\* as it finds another of the labels.
Loc(frame, rows_to_keep, legacy_pandas) ==
    LET series == rows_to_keep.series
        rows == [r \in DOMAIN frame.data |-> r]
    IN IF series.groupby
       THEN Raise("TypeError", "unhashable type: SeriesGroupBy", <<>>)
       ELSE IF rows_to_keep.type_ = "BOOLEAN"
       THEN IF \E r \in DOMAIN frame.index : frame.index[r] \notin Range(series.index)
            THEN Raise("IndexingError", "Unalignable boolean Series provided as indexer",
                       <<>>)
            ELSE LET holds(r) ==
                         series.data[CHOOSE i \in DOMAIN series.index :
                                         series.index[i] = frame.index[r]] = <<1>>
                     kept == SelectSeq(rows, holds)
                 IN Ok(DataFrame(frame.columns,
                                 [i \in DOMAIN kept |-> frame.index[kept[i]]],
                                 [i \in DOMAIN kept |-> frame.data[kept[i]]]))
       ELSE LET labels == series.data
                found(i) == labels[i] \in Range(frame.index)
                row(i) == IF found(i)
                          THEN frame.data[CHOOSE r \in DOMAIN frame.index :
                                              frame.index[r] = labels[i]]
                          ELSE [c \in DOMAIN frame.columns |-> NaN]
            IN IF (\A i \in DOMAIN labels : found(i))
                  \/ (legacy_pandas /\ \E i \in DOMAIN labels : found(i))
               THEN Ok(DataFrame(frame.columns, labels, [i \in DOMAIN labels |-> row(i)]))
               ELSE Raise("KeyError", "labels not in index", <<>>)

\* The group by list Select.__init__ stores for the list given, or what the
\* first grouper it rejects raises.
RECURSIVE Select_init_group_by(_, _)
Select_init_group_by(fields, group_by) ==
    IF group_by = <<>> THEN Ok(<<>>)
    ELSE LET grouper == Head(group_by)
             rest == Select_init_group_by(fields, Tail(group_by))
         IN IF grouper.k = "Value"
            THEN IF ~isinstance_int(grouper)
                 THEN Raise("ValueError",
                            "Attempt to group by a literal non-integer constant",
                            <<grouper.value>>)
                 ELSE IF PyIndex(fields, grouper.value - 1) = PyIndexError
                 THEN Raise("IndexError", "list index out of range", <<grouper.value>>)
                 ELSE IF ~rest.ok THEN rest
                 ELSE Ok(<<Field(<<Selector_name(PyIndex(fields, grouper.value - 1)).value>>)>>
                         \o rest.value)
            ELSE IF ~rest.ok THEN rest
            ELSE Ok(<<grouper>> \o rest.value)

\* Select.__init__: the node, or what the constructor raises.
Select_init(modifier, fields, from_, where, group_by, having) ==
    LET positioned == [i \in DOMAIN fields |-> [fields[i] EXCEPT !.position = i]]
        groupers == IF group_by = no_group_by THEN Ok(no_group_by)
                    ELSE Select_init_group_by(positioned, group_by)
    IN IF ~groupers.ok THEN groupers
       ELSE Ok([modifier |-> modifier, fields |-> positioned, from_ |-> from_,
                where |-> where, group_by |-> groupers.value, having |-> having])

\* DataSource.create_context: the table the reference names, its columns under
\* their canonical paths (table, column).
create_context(from_, datasets) ==
    LET found == TableReference_get_dataframe(from_.path, datasets).outcome
    IN IF ~found.ok THEN found
       ELSE LET frame == found.value.table.dataframe
            IN Ok(EvaluationContext(
                   TypedDataFrame(
                       DataFrame([c \in DOMAIN frame.columns |->
                                     <<found.value.name[1], frame.columns[c]>>],
                                 frame.index, frame.data),
                       found.value.table.types),
                   <<>>, <<>>, <<>>, NoneObject))

\* The context with the columns the groupers name: a grouper that names a
\* selector and no column has that selector evaluated and added as a column.
RECURSIVE group_by_columns(_, _, _)
group_by_columns(context, selectors, group_by) ==
    IF group_by = <<>> THEN Ok([context |-> context, paths |-> <<>>])
    ELSE LET grouper == Head(group_by)
             path == get_canonical_path(context, grouper.path)
             frame == context.table.dataframe
             named == SelectSeq(selectors,
                                LAMBDA s : s.k = "Selector" /\ name(s) = path[1])
             column == evaluate(named[1], context)
             added == [context EXCEPT
                          !.table = TypedDataFrame(
                              DataFrame(Append(frame.columns, path), frame.index,
                                        [r \in DOMAIN frame.data |->
                                            Append(frame.data[r],
                                                   column.value.series.data[r])]),
                              Append(context.table.types, column.value.type_))]
             rest(ctx) == group_by_columns(ctx, selectors, Tail(group_by))
             then(ctx) == IF ~rest(ctx).ok THEN rest(ctx)
                          ELSE Ok([context |-> rest(ctx).value.context,
                                   paths |-> <<path>> \o rest(ctx).value.paths])
         IN IF grouper.k # "Field"
            THEN Raise("ValueError", "invalid GROUP BY target", <<>>)
            ELSE IF path = Unresolved
            THEN Raise("ValueError", "field is not present in any from'ed tables",
                       <<grouper.path>>)
            ELSE IF path \in Range(frame.columns) THEN then(context)
            ELSE IF named = <<>>
            THEN Raise("ValueError", "invalid GROUP BY target", <<grouper.path>>)
            ELSE IF ~column.ok THEN column
            ELSE IF column.value.series.index # frame.index
            THEN Raise("ValueError", "Length of values does not match length of index",
                       <<grouper.path>>)
            ELSE then(added)

\* EvaluationContext.do_group_by: the grouped context and the selectors, each
\* marked grouped.
do_group_by(context, selectors, group_by) ==
    LET columns == group_by_columns(context, selectors, group_by)
    IN IF ~columns.ok THEN columns
       ELSE LET grouped == [columns.value.context EXCEPT
                               !.by = columns.value.paths,
                               !.group_by_paths = columns.value.paths]
            IN Ok([context |-> grouped,
                   fields |-> [i \in DOMAIN selectors |->
                                  mark_grouped_by(selectors[i], columns.value.paths,
                                                  grouped)]])

\* The labels of several indexes: the index itself when all are equal, else
\* their union, sorted (legacy_pandas) or in order of appearance.
RECURSIVE Appearance(_)
Appearance(indexes) ==
    IF indexes = <<>> THEN <<>>
    ELSE LET earlier == Appearance(SubSeq(indexes, 1, Len(indexes) - 1))
         IN earlier \o SelectSeq(indexes[Len(indexes)], LAMBDA l : l \notin Range(earlier))

IndexUnion(indexes, legacy_pandas) ==
    IF \A i \in DOMAIN indexes : indexes[i] = indexes[1] THEN indexes[1]
    ELSE IF legacy_pandas THEN SortedLabels(UNION {Range(indexes[i]) : i \in DOMAIN indexes})
    ELSE Appearance(indexes)

\* pd.concat of the evaluated series as the columns of one frame, and their
\* types.
ConcatSeries(evaluated_fields, legacy_pandas) ==
    LET index == IndexUnion([i \in DOMAIN evaluated_fields |->
                                evaluated_fields[i].series.index], legacy_pandas)
        cell(i, label) ==
            LET series == evaluated_fields[i].series
            IN IF label \in Range(series.index)
               THEN series.data[CHOOSE r \in DOMAIN series.index : series.index[r] = label]
               ELSE NaN
    IN TypedDataFrame(
           DataFrame([i \in DOMAIN evaluated_fields |-> <<evaluated_fields[i].series.name>>],
                     index,
                     [r \in DOMAIN index |->
                         [i \in DOMAIN evaluated_fields |-> cell(i, index[r])]]),
           [i \in DOMAIN evaluated_fields |-> evaluated_fields[i].type_])

\* _evaluate_fields_as_dataframe without its check for ungrouped fields.
_evaluate_fields_ignoring_groups(fields, context, legacy_pandas) ==
    LET evaluated_fields == [i \in DOMAIN fields |-> evaluate(fields[i], context)]
        failed == {i \in DOMAIN fields : ~evaluated_fields[i].ok}
    IN IF failed # {}
       THEN evaluated_fields[CHOOSE i \in failed : \A j \in failed : i <= j]
       ELSE Ok(ConcatSeries([i \in DOMAIN fields |-> evaluated_fields[i].value],
                            legacy_pandas))

\* _evaluate_fields_as_dataframe
_evaluate_fields_as_dataframe(fields, context, legacy_pandas) ==
    LET evaluated_fields == [i \in DOMAIN fields |-> evaluate(fields[i], context)]
        failed == {i \in DOMAIN fields : ~evaluated_fields[i].ok}
        ungrouped == {i \in DOMAIN fields : evaluated_fields[i].value.series.groupby}
    IN IF failed # {}
       THEN evaluated_fields[CHOOSE i \in failed : \A j \in failed : i <= j]
       ELSE IF ungrouped # {}
       THEN Raise("ValueError",
                  "selecting expression that is not aggregated or grouped by",
                  <<fields[CHOOSE i \in ungrouped : \A j \in ungrouped : i <= j]>>)
       ELSE Ok(ConcatSeries([i \in DOMAIN fields |-> evaluated_fields[i].value],
                            legacy_pandas))

NotReached == [k |-> "not reached"]

\* What a call of Select.get_dataframe leaves: self.fields, the outcome, and as
\* a trace of the call the context's table after WHERE and the result before
\* HAVING.
SelectCall(fields, outcome, where_table, selected) ==
    [fields |-> fields, outcome |-> outcome, where_table |-> where_table,
     selected |-> selected]

DataSource(table_reference) == [k |-> "DataSource", path |-> table_reference]

\* The HAVING step with its expression evaluated and the result left as it is.
Select_having_unfiltered(self, datasets, context, result, legacy_pandas) ==
    LET having_context == EvaluationContext(result, <<>>, context.group_by_paths, <<>>,
                                            context)
        having == mark_grouped_by(self.having, context.group_by_paths, having_context)
        rows_to_keep == evaluate(having, having_context)
    IN IF ~rows_to_keep.ok THEN rows_to_keep
       ELSE Ok([table |-> result, name |-> DEFAULT_TABLE_NAME])

\* The HAVING step of Select.get_dataframe on the evaluated result.
Select_having(self, datasets, context, result, legacy_pandas) ==
    LET having_context == EvaluationContext(result, <<>>, context.group_by_paths, <<>>,
                                            context)
        having == mark_grouped_by(self.having, context.group_by_paths, having_context)
        rows_to_keep == evaluate(having, having_context)
        kept == Loc(result.dataframe, rows_to_keep.value, legacy_pandas)
    IN IF ~rows_to_keep.ok THEN rows_to_keep
       ELSE IF ~kept.ok THEN kept
       ELSE Ok([table |-> TypedDataFrame(kept.value, result.types),
                name |-> DEFAULT_TABLE_NAME])

\* Select.get_dataframe from the evaluated fields on: the result, filtered by
\* HAVING if there is one.
Select_result(self, datasets, grouped, where_table, result, legacy_pandas) ==
    IF ~result.ok THEN SelectCall(grouped.fields, result, where_table, NotReached)
    ELSE SelectCall(grouped.fields,
                    IF self.having = EMPTY_NODE
                    THEN Ok([table |-> result.value, name |-> DEFAULT_TABLE_NAME])
                    ELSE Select_having(self, datasets, grouped.context, result.value,
                                       legacy_pandas),
                    where_table, result.value)

\* Select.get_dataframe from the outcome of do_group_by on: self.fields is
\* assigned and the fields are evaluated.
Select_fields(self, datasets, where_table, grouped, legacy_pandas) ==
    IF ~grouped.ok THEN SelectCall(self.fields, grouped, where_table, NotReached)
    ELSE Select_result(self, datasets, grouped.value, where_table,
                       _evaluate_fields_as_dataframe(grouped.value.fields,
                                                     grouped.value.context, legacy_pandas),
                       legacy_pandas)

\* Select.get_dataframe with do_group_by on the table as it was before WHERE.
Select_group_by_before_where(self, datasets, context, filtered, legacy_pandas) ==
    IF ~filtered.ok THEN SelectCall(self.fields, filtered, NotReached, NotReached)
    ELSE LET table == TypedDataFrame(filtered.value, context.table.types)
         IN Select_fields(self, datasets, table,
                          IF self.group_by = no_group_by
                          THEN Ok([context |-> [context EXCEPT !.table = table],
                                   fields |-> self.fields])
                          ELSE do_group_by(context, self.fields, self.group_by),
                          legacy_pandas)

\* Select.get_dataframe from the outcome of the WHERE filter on.
Select_group_by(self, datasets, context, filtered, legacy_pandas) ==
    IF ~filtered.ok THEN SelectCall(self.fields, filtered, NotReached, NotReached)
    ELSE LET table == TypedDataFrame(filtered.value, context.table.types)
         IN Select_fields(self, datasets, table,
                          IF self.group_by = no_group_by
                          THEN Ok([context |-> [context EXCEPT !.table = table],
                                   fields |-> self.fields])
                          ELSE do_group_by([context EXCEPT !.table = table], self.fields,
                                           self.group_by),
                          legacy_pandas)

\* The rows of the context's table the evaluated WHERE condition keeps.
Select_where(context, rows_to_keep, legacy_pandas) ==
    IF ~rows_to_keep.ok THEN rows_to_keep
    ELSE Loc(context.table.dataframe, rows_to_keep.value, legacy_pandas)

\* Select.get_dataframe from the created context on.
Select_from(self, datasets, created, outer_context, legacy_pandas) ==
    IF ~created.ok THEN SelectCall(self.fields, created, NotReached, NotReached)
    ELSE LET selectors == SelectSeq(self.fields, LAMBDA s : s.k = "Selector")
             context == [created.value EXCEPT
                            !.subcontext = outer_context,
                            !.selector_names =
                                [i \in DOMAIN selectors |-> name(selectors[i])]]
         IN Select_group_by(self, datasets, context,
                            IF self.where = EMPTY_NODE THEN Ok(context.table.dataframe)
                            ELSE Select_where(context, evaluate(self.where, context),
                                              legacy_pandas),
                            legacy_pandas)

\* An assignment to an attribute of an object, the object under the name the
\* code has for it.
Assignment(object, attribute, value) ==
    [object |-> object, attribute |-> attribute, value |-> value]

\* The assignments of get_dataframe with the WHERE filter stored in the table
\* of the outer context.
Select_get_dataframe_filtering_outer(self, outer_context, call) ==
    (IF outer_context # NoneObject /\ call.where_table # NotReached
     THEN <<Assignment("context", "subcontext", "outer_context")>> ELSE <<>>)
    \o (IF call.where_table # NotReached
        THEN <<Assignment("context", "selector_names",
                          [i \in DOMAIN self.fields |-> name(self.fields[i])])>>
        ELSE <<>>)
    \o (IF self.where # EMPTY_NODE /\ call.where_table # NotReached
        THEN <<Assignment("outer_context", "table", call.where_table)>> ELSE <<>>)
    \o (IF self.group_by # no_group_by /\ call.where_table # NotReached
        THEN <<Assignment("context", "group_by_paths", self.group_by)>> ELSE <<>>)
    \o (IF self.group_by # no_group_by /\ call.fields # self.fields
        THEN <<Assignment("self", "fields", call.fields)>> ELSE <<>>)
    \o (IF self.having # EMPTY_NODE /\ call.selected # NotReached
        THEN <<Assignment("having_context", "table", call.selected),
               Assignment("having_context", "subcontext", "context"),
               Assignment("having_context", "group_by_paths", self.group_by)>>
        ELSE <<>>)

\* The assignments a call of Select.get_dataframe(datasets, outer_context) has
\* made when it ends as call tells, in order: add_subcontext, selector_names,
\* the WHERE filter, do_group_by on the context and its result in self.fields,
\* and the three steps that set up the context of HAVING. A context that is
\* linked to is given by its name.
Select_get_dataframe_assignments(self, outer_context, call) ==
    (IF outer_context # NoneObject /\ call.where_table # NotReached
     THEN <<Assignment("context", "subcontext", "outer_context")>> ELSE <<>>)
    \o (IF call.where_table # NotReached
        THEN <<Assignment("context", "selector_names",
                          [i \in DOMAIN self.fields |-> name(self.fields[i])])>>
        ELSE <<>>)
    \o (IF self.where # EMPTY_NODE /\ call.where_table # NotReached
        THEN <<Assignment("context", "table", call.where_table)>> ELSE <<>>)
    \o (IF self.group_by # no_group_by /\ call.where_table # NotReached
        THEN <<Assignment("context", "group_by_paths", self.group_by)>> ELSE <<>>)
    \o (IF self.group_by # no_group_by /\ call.fields # self.fields
        THEN <<Assignment("self", "fields", call.fields)>> ELSE <<>>)
    \o (IF self.having # EMPTY_NODE /\ call.selected # NotReached
        THEN <<Assignment("having_context", "table", call.selected),
               Assignment("having_context", "subcontext", "context"),
               Assignment("having_context", "group_by_paths", self.group_by)>>
        ELSE <<>>)

\* An object after some assignments: those to it applied in order.
RECURSIVE Assigned(_, _, _)
Assigned(object, before, assignments) ==
    IF assignments = <<>> THEN before
    ELSE Assigned(object,
                  IF Head(assignments).object = object
                  THEN [before EXCEPT ![Head(assignments).attribute] = Head(assignments).value]
                  ELSE before,
                  Tail(assignments))

\* Select.get_dataframe
Select_get_dataframe(self, datasets, outer_context, legacy_pandas) ==
    IF self.modifier = "DISTINCT"
    THEN SelectCall(self.fields,
                    Raise("NotImplementedError", "SELECT DISTINCT not implemented", <<>>),
                    NotReached, NotReached)
    ELSE Select_from(self, datasets, create_context(self.from_, datasets), outer_context,
                     legacy_pandas)

(***************************************************************************)
(* QueryExpression                                                         *)
(***************************************************************************)
\* A (field, direction) pair of an ORDER BY list and the (limit, offset) pair
\* of LIMIT; no_direction is the EMPTY_NODE of a key without ASC or DESC and
\* no_order_by the EMPTY_NODE of a query without ORDER BY.
OrderKey(field, direction) == [field |-> field, direction |-> direction]
Limit(limit, offset) == [limit |-> limit, offset |-> offset]
no_direction == ""
no_order_by == <<EMPTY_NODE>>

\* QueryExpression.__init__
QueryExpression(with_expression, base_query, order_by, limit) ==
    [with_expression |-> with_expression, base_query |-> base_query,
     order_by |-> order_by, limit |-> limit]

\* EMPTY_CONTEXT: a context whose table has one row and no column.
EMPTY_CONTEXT ==
    EvaluationContext(TypedDataFrame(DataFrame(<<>>, RangeIndex(1), << <<>> >>), <<>>),
                      <<>>, <<>>, <<>>, NoneObject)

\* add_table_from_dataframe on a new context: the columns keep their ids under
\* the table name None and get the table's name in front otherwise.
add_table_from_dataframe(table, table_name) ==
    EvaluationContext(
        IF table_name = None THEN table
        ELSE TypedDataFrame(
                 DataFrame([c \in DOMAIN table.dataframe.columns |->
                               <<table_name[1]>> \o table.dataframe.columns[c]],
                           table.dataframe.index, table.dataframe.data),
                 table.types),
        <<>>, <<>>, <<>>, NoneObject)

\* The loop of _order_by over the keys: the column ids to sort by and the
\* directions (ascending = TRUE), or what the first key it rejects raises.
RECURSIVE order_by_fields(_, _)
order_by_fields(order_by, context) ==
    IF order_by = <<>> THEN Ok([fields |-> <<>>, directions |-> <<>>])
    ELSE LET field == Head(order_by).field
             columns == context.table.dataframe.columns
             rest == order_by_fields(Tail(order_by), context)
             key == IF field.k = "Field"
                    THEN (IF get_canonical_path(context, field.path) = Unresolved
                          THEN Raise("ValueError",
                                     "field is not present in any from'ed tables",
                                     <<field.path>>)
                          ELSE Ok(get_canonical_path(context, field.path)))
                    ELSE IF field.k = "Value"
                    THEN (IF ~isinstance_int(field)
                          THEN Raise("ValueError",
                                     "Attempt to order by a literal non-integer constant",
                                     <<field.value>>)
                          ELSE IF ~PyIndexInRange(columns, field.value - 1)
                          THEN Raise("IndexError", "index out of bounds", <<field.value>>)
                          ELSE Ok(PyIndex(columns, field.value - 1)))
                    ELSE Raise("ValueError", "Invalid field specification", <<field>>)
         IN IF ~key.ok THEN key
            ELSE IF ~rest.ok THEN rest
            ELSE Ok([fields |-> <<key.value>> \o rest.value.fields,
                     directions |-> <<Head(order_by).direction # "DESC">>
                                    \o rest.value.directions])

\* The order of two rows under the sort keys: "less", "equal"
\* or "greater"; NaN sorts last in both directions.
RECURSIVE CompareRows(_, _, _, _, _)
CompareRows(frame, r, s, by, ascending) ==
    IF by = <<>> THEN "equal"
    ELSE LET j == ColumnPosition(frame, Head(by))
             x == frame.data[r][j]
             y == frame.data[s][j]
         IN IF x = y THEN CompareRows(frame, r, s, Tail(by), Tail(ascending))
            ELSE IF x = NaN THEN "greater"
            ELSE IF y = NaN THEN "less"
            ELSE IF (x[1] < y[1]) = Head(ascending) THEN "less"
            ELSE "greater"

\* The permutations of the positions 1..n.
RowOrders(n) ==
    {p \in [1..n -> 1..n] : \A i, j \in 1..n : p[i] = p[j] => i = j}

\* The frame with its rows in the order p.
Reordered(frame, p) ==
    DataFrame(frame.columns, [i \in DOMAIN p |-> frame.index[p[i]]],
              [i \in DOMAIN p |-> frame.data[p[i]]])

\* DataFrame.sort_values(by, ascending), kind left at its default: the frames
\* it may return. Several keys are sorted by a lexsort, which keeps rows of
\* equal keys in their order; one key is sorted by numpy's quicksort, which
\* promises no order among rows of equal keys.
sort_values(frame, by, ascending) ==
    {Reordered(frame, p) : p \in
        {p \in RowOrders(Len(frame.data)) :
            \A i, j \in DOMAIN p :
                i < j => LET order == CompareRows(frame, p[i], p[j], by, ascending)
                         IN \/ order = "less"
                            \/ order = "equal" /\ (Len(by) = 1 \/ p[i] < p[j])}}

\* QueryExpression._order_by: the outcomes it may have.
_order_by(order_by, typed_dataframe, table_name) ==
    LET context == add_table_from_dataframe(typed_dataframe, table_name)
        keys == order_by_fields(order_by, context)
    IN IF ~keys.ok THEN {keys}
       ELSE {Ok(TypedDataFrame(frame, context.table.types)) :
             frame \in sort_values(context.table.dataframe, keys.value.fields,
                                   keys.value.directions)}

\* dataframe[start:stop]: the rows at the 0-based positions start .. stop - 1,
\* start and stop not negative.
RowSlice(frame, start, stop) ==
    LET first == IF start < Len(frame.data) THEN start ELSE Len(frame.data)
        last == IF stop < Len(frame.data) THEN stop ELSE Len(frame.data)
        n == IF last > first THEN last - first ELSE 0
    IN DataFrame(frame.columns, [i \in 1..n |-> frame.index[first + i]],
                 [i \in 1..n |-> frame.data[first + i]])

\* QueryExpression._limit
_limit(limit, typed_dataframe) ==
    LET limit_value == evaluate(limit.limit, EMPTY_CONTEXT)
        offset_value == evaluate(limit.offset, EMPTY_CONTEXT)
        offset == IF limit.offset = EMPTY_NODE THEN 0 ELSE offset_value.value.series.data[1][1]
    IN IF ~limit_value.ok THEN limit_value
       ELSE IF limit.offset # EMPTY_NODE /\ ~offset_value.ok THEN offset_value
       ELSE Ok(TypedDataFrame(
                RowSlice(typed_dataframe.dataframe, offset,
                         limit_value.value.series.data[1][1] + offset),
                typed_dataframe.types))

\* What a call of QueryExpression.get_dataframe leaves: the outcome and, as a
\* trace of the call, the call of the base query and the table after ORDER BY.
QueryCall(outcome, base, ordered) == [outcome |-> outcome, base |-> base, ordered |-> ordered]

\* return typed_dataframe, DEFAULT_TABLE_NAME
Returned(typed_dataframe) ==
    IF ~typed_dataframe.ok THEN typed_dataframe
    ELSE Ok([table |-> typed_dataframe.value, name |-> DEFAULT_TABLE_NAME])

\* QueryExpression.get_dataframe from the outcome of ORDER BY on.
QueryExpression_limit(self, base, ordered) ==
    IF ~ordered.ok THEN QueryCall(ordered, base, NotReached)
    ELSE QueryCall(IF self.limit = EMPTY_NODE THEN Returned(ordered)
                   ELSE Returned(_limit(self.limit, ordered.value)),
                   base, ordered.value)

\* get_dataframe with LIMIT applied to the base query's table and ORDER BY to
\* what is left.
QueryExpression_limit_first(self, base) ==
    LET table == base.outcome.value.table
        limited == IF self.limit = EMPTY_NODE THEN Ok(table) ELSE _limit(self.limit, table)
    IN IF ~base.outcome.ok THEN {QueryCall(base.outcome, base, NotReached)}
       ELSE IF ~limited.ok THEN {QueryCall(limited, base, NotReached)}
       ELSE {QueryCall(Returned(ordered), base,
                       IF ordered.ok THEN ordered.value ELSE NotReached) :
             ordered \in IF self.order_by = no_order_by THEN {limited}
                         ELSE _order_by(self.order_by, limited.value,
                                        base.outcome.value.name)}

\* QueryExpression.get_dataframe from the outcome of the base query on.
QueryExpression_order_by(self, base) ==
    IF ~base.outcome.ok THEN {QueryCall(base.outcome, base, NotReached)}
    ELSE {QueryExpression_limit(self, base, ordered) :
          ordered \in IF self.order_by = no_order_by THEN {Ok(base.outcome.value.table)}
                      ELSE _order_by(self.order_by, base.outcome.value.table,
                                     base.outcome.value.name)}

\* get_dataframe with the base query evaluated before WITH is looked at.
QueryExpression_base_first(self, datasets, legacy_pandas) ==
    LET base == Select_get_dataframe(self.base_query, datasets, NoneObject, legacy_pandas)
    IN IF ~base.outcome.ok THEN {QueryCall(base.outcome, base, NotReached)}
       ELSE IF self.with_expression # EMPTY_NODE
       THEN {QueryCall(Raise("NotImplementedError",
                             "WITH expressions are not implemented yet.", <<>>),
                       base, NotReached)}
       ELSE QueryExpression_order_by(self, base)

\* QueryExpression.get_dataframe: the calls it may make.
QueryExpression_get_dataframe(self, datasets, legacy_pandas) ==
    IF self.with_expression # EMPTY_NODE
    THEN {QueryCall(Raise("NotImplementedError",
                          "WITH expressions are not implemented yet.", <<>>),
                    NotReached, NotReached)}
    ELSE QueryExpression_order_by(
             self, Select_get_dataframe(self.base_query, datasets, NoneObject,
                                        legacy_pandas))

(***************************************************************************)
(* Expression nodes (evaluatable_node.py)                                   *)
(***************************************************************************)
\* Value(None, None), the literal NULL: its type_ is None and it evaluates to
\* NaN in every row.
NULL == Value(0, "None")

\* implicitly_coerce of two types of which either may be None.
coerce_optional(t1, t2) ==
    IF t1 = NULL.type_ THEN t2
    ELSE IF t2 = NULL.type_ THEN t1
    ELSE implicitly_coerce(t1, t2)

\* The children evaluated in the context, in order, or the first failure.
RECURSIVE evaluate_children(_, _)
evaluate_children(children, context) ==
    IF children = <<>> THEN Ok(<<>>)
    ELSE LET first == IF Head(children) = NULL
                      THEN Ok(TypedSeries(Series(_get_index(context),
                                                 [i \in DOMAIN _get_index(context) |-> NaN],
                                                 NoName),
                                          NULL.type_))
                      ELSE evaluate(Head(children), context)
         IN IF ~first.ok THEN first
            ELSE LET rest == evaluate_children(Tail(children), context)
                 IN IF ~rest.ok THEN rest ELSE Ok(<<first.value>> \o rest.value)

\* InCheck.__init__
InCheck_init(expression, direction, elements) ==
    IF direction \in {"IN", "NOT_IN"}
    THEN Ok([k |-> "InCheck",
             children |-> <<expression>> \o elements,
             direction |-> (direction = "IN")])
    ELSE Raise("ValueError", "Invalid direction for InCheck, not IN or NOT_IN",
               <<direction>>)

\* left == right of two columns of one index: NaN equals nothing.
Series_eq(left, right) ==
    Series(left.index,
           [r \in DOMAIN left.data |->
               IF left.data[r] # NaN /\ left.data[r] = right.data[r] THEN <<1>> ELSE <<0>>],
           NoName)

\* The cell of a column under a label, NaN if the column has no such label.
CellAt(series, label) ==
    IF label \in Range(series.index)
    THEN series.data[CHOOSE r \in DOMAIN series.index : series.index[r] = label]
    ELSE NaN

\* left | right of two boolean columns: pandas aligns them on the sorted union
\* of their labels unless the indexes are equal; a label that right lacks is
\* False in right, and a label that left lacks gives False.
Series_or_labels(left, right, labels) ==
    Series(labels,
           [r \in DOMAIN labels |->
               IF CellAt(left, labels[r]) = NaN THEN <<0>>
               ELSE IF CellAt(left, labels[r]) = <<1>> \/ CellAt(right, labels[r]) = <<1>>
               THEN <<1>> ELSE <<0>>],
           NoName)

Series_or(left, right) ==
    Series_or_labels(left, right,
                     IF left.index = right.index THEN left.index
                     ELSE SortedLabels(Range(left.index) \cup Range(right.index)))

\* ~series of a boolean column.
Series_invert(series) ==
    [series EXCEPT !.data = [r \in DOMAIN series.data |->
                                IF series.data[r] = <<1>> THEN <<0>> ELSE <<1>>]]

\* The loop of InCheck._evaluate_node over the elements, from contained on.
RECURSIVE InCheck_contained(_, _, _)
InCheck_contained(contained, expression_value, element_values) ==
    IF element_values = <<>> THEN contained
    ELSE InCheck_contained(
             Series_or(contained, Series_eq(expression_value.series,
                                            Head(element_values).series)),
             expression_value, Tail(element_values))

\* InCheck._evaluate_node: contained starts as pd.Series([False] * n), whose
\* index is 0..n-1.
InCheck_evaluate_node(self, evaluated_children) ==
    Ok(TypedSeries(
        IF self.direction
        THEN InCheck_contained(
                 Series(RangeIndex(Len(evaluated_children[1].series.data)),
                        [r \in DOMAIN evaluated_children[1].series.data |-> <<0>>], NoName),
                 evaluated_children[1], Tail(evaluated_children))
        ELSE Series_invert(InCheck_contained(
                 Series(RangeIndex(Len(evaluated_children[1].series.data)),
                        [r \in DOMAIN evaluated_children[1].series.data |-> <<0>>], NoName),
                 evaluated_children[1], Tail(evaluated_children))),
        "BOOLEAN"))

\* BQArray(type_), the type of the arrays of elements of type_.
BQArray(type_) == [k |-> "BQArray", type_ |-> type_]

BQScalarType == {"INTEGER", "FLOAT", "STRING", "BOOLEAN"}

\* implicitly_coerce(*types) of one type or more.
RECURSIVE implicitly_coerce_all(_)
implicitly_coerce_all(types) ==
    IF Len(types) = 1 THEN types[1]
    ELSE IF implicitly_coerce_all(Tail(types)) = CannotCoerce THEN CannotCoerce
    ELSE implicitly_coerce(types[1], implicitly_coerce_all(Tail(types)))

\* Array.__init__: without values the only child is the placeholder
\* Value(1, INTEGER).
Array_init(maybe_type, maybe_values) ==
    [k |-> "Array",
     array_type |-> IF maybe_type # EMPTY_NODE THEN maybe_type ELSE NoneObject,
     children |-> IF maybe_values = <<EMPTY_NODE>> THEN <<Value(1, "INTEGER")>>
                  ELSE maybe_values,
     empty |-> (maybe_values = <<EMPTY_NODE>>)]

\* Array._evaluate_node: the type of the children is checked against the
\* declared type, and each row holds the tuple of the children's values.
Array_evaluate_node(self, values) ==
    LET value_type == implicitly_coerce_all([i \in DOMAIN values |-> values[i].type_])
    IN IF value_type = CannotCoerce
       THEN Raise("ValueError", "Cannot implicitly coerce the given types", <<>>)
       ELSE IF self.array_type # NoneObject
               /\ implicitly_coerce(value_type, self.array_type.type_)
                      # self.array_type.type_
       THEN Raise("ValueError", "Array specifies type, incompatible with values of type",
                  <<self.array_type.type_, value_type>>)
       ELSE IF self.array_type = NoneObject /\ value_type \notin BQScalarType
       THEN Raise("ValueError", "Cannot create arrays of arrays", <<>>)
       ELSE Ok(TypedSeries(
                Series(values[1].series.index,
                       [r \in DOMAIN values[1].series.data |->
                           << IF self.empty THEN <<>>
                              ELSE [i \in DOMAIN values |-> values[i].series.data[r][1]] >>],
                       NoName),
                IF self.array_type # NoneObject THEN self.array_type
                ELSE BQArray(value_type)))

\* Case.__init__: the node, whose children are when0, then0, when1, then1, ...,
\* else.
Case_init(comparand, whens, else_) ==
    LET isinstance_EvaluatableNode(node) ==
            node.k \in {"Value", "Field", "BinaryExpression", "_AggregatingFunctionCall",
                        "Case"}
        invalid_when == Raise("ValueError",
                              "Invalid CASE expression; WHEN must be an expression.",
                              <<comparand>>)
        condition(when) == IF comparand # EMPTY_NODE
                           THEN BinaryExpression(comparand, "=", when) ELSE when
    IN IF whens = <<>>
       THEN Raise("ValueError", "Must provide at least one WHEN for a CASE", <<>>)
       ELSE IF ~isinstance_EvaluatableNode(whens[1][1]) THEN invalid_when
       ELSE IF comparand # EMPTY_NODE /\ ~isinstance_EvaluatableNode(comparand)
       THEN Raise("ValueError", "Invalid CASE expression; comparand must be an expression.",
                  <<comparand>>)
       ELSE IF \E i \in DOMAIN whens : ~isinstance_EvaluatableNode(whens[i][1])
       THEN invalid_when
       ELSE Ok([k |-> "Case",
                children |-> [j \in 1..(2 * Len(whens) + 1) |->
                                 IF j = 2 * Len(whens) + 1
                                 THEN (IF else_ = EMPTY_NODE THEN NULL ELSE else_)
                                 ELSE IF j % 2 = 1 THEN condition(whens[(j + 1) \div 2][1])
                                 ELSE whens[j \div 2][2]]])

\* list[::2] and list[1::-2] of Python: every second element from the first
\* on, and the elements from index 1 (or the last, if there is none) backward
\* in steps of two.
EverySecond(list) == [i \in 1..((Len(list) + 1) \div 2) |-> list[2 * i - 1]]

RECURSIVE BackwardFrom(_, _)
BackwardFrom(list, index) ==
    IF index < 1 THEN <<>> ELSE <<list[index]>> \o BackwardFrom(list, index - 2)

FromSecondBackward(list) ==
    BackwardFrom(list, IF Len(list) < 2 THEN Len(list) ELSE 2)

\* zip(left, right), as long as the shorter of the two.
zip(left, right) ==
    [i \in 1..(IF Len(left) < Len(right) THEN Len(left) ELSE Len(right)) |->
        <<left[i], right[i]>>]

\* Case.copy
Case_copy(self, new_children) ==
    Case_init(EMPTY_NODE,
              zip(EverySecond(SubSeq(new_children, 1, Len(new_children) - 1)),
                  FromSecondBackward(SubSeq(new_children, 1, Len(new_children) - 1))),
              new_children[Len(new_children)])

\* One turn of the loop of Case._evaluate_node:
\* then.series.where(condition.series, result.series) under the coerced type.
Case_nested_if(condition, then, result) ==
    IF ~result.ok THEN result
    ELSE IF condition.type_ # "BOOLEAN"
    THEN Raise("ValueError", "CASE condition isn't boolean! Found", <<condition>>)
    ELSE IF coerce_optional(then.type_, result.value.type_) = CannotCoerce
    THEN Raise("ValueError", "Cannot implicitly coerce the given types", <<>>)
    ELSE Ok(TypedSeries(
             [then.series EXCEPT
                 !.data = [i \in DOMAIN then.series.data |->
                              IF condition.series.data[i] = <<1>> THEN then.series.data[i]
                              ELSE result.value.series.data[i]]],
             coerce_optional(then.type_, result.value.type_)))

\* Case._evaluate_node with the whens walked forward: the else column is
\* overwritten by the then of every true condition in turn.
RECURSIVE Case_last_match_wins(_)
Case_last_match_wins(evaluated_children) ==
    IF Len(evaluated_children) = 1 THEN Ok(evaluated_children[1])
    ELSE Case_nested_if(
             evaluated_children[Len(evaluated_children) - 2],
             evaluated_children[Len(evaluated_children) - 1],
             Case_last_match_wins(
                 SubSeq(evaluated_children, 1, Len(evaluated_children) - 3)
                 \o <<evaluated_children[Len(evaluated_children)]>>))

\* Case._evaluate_node: IF(when0, then0, IF(when1, then1, ... else)), built
\* from the last when backward.
RECURSIVE Case_evaluate_node(_)
Case_evaluate_node(evaluated_children) ==
    IF Len(evaluated_children) = 1 THEN Ok(evaluated_children[1])
    ELSE Case_nested_if(
             evaluated_children[1], evaluated_children[2],
             Case_evaluate_node(SubSeq(evaluated_children, 3, Len(evaluated_children))))

\* A function called without arguments, and an OVER clause without PARTITION
\* BY: EMPTY_NODE in the place of a list.
no_arguments == <<EMPTY_NODE>>
no_partition_by == <<EMPTY_NODE>>

\* str.upper() of the function names and directions of the calls.
upper(s) ==
    CASE s \in {"sum", "Sum", "SUM"} -> "SUM"
      [] s \in {"min", "MIN"} -> "MIN"
      [] s \in {"Max", "MAX"} -> "MAX"
      [] s \in {"mod", "MOD"} -> "MOD"
      [] s \in {"row_number", "Row_Number", "ROW_NUMBER"} -> "ROW_NUMBER"
      [] s \in {"count", "COUNT"} -> "COUNT"
      [] s \in {"array_agg"} -> "ARRAY_AGG"
      [] s \in {"foo"} -> "FOO"
      [] s \in {"asc", "ASC"} -> "ASC"
      [] s \in {"desc", "Desc", "DESC"} -> "DESC"

\* The keys of FunctionCall._FUNCTION_MAP, and those of them whose function is
\* an _AggregatingFunction.
_FUNCTION_MAP ==
    {"MIN", "MAX", "SUM", "MOD", "CONCAT", "TIMESTAMP", "CURRENT_TIMESTAMP", "ROW_NUMBER"}
isinstance_AggregatingFunction(function) == function \in {"MIN", "MAX", "SUM"}

\* _AnalyticFunctionCall.__init__; over_clause holds partition_by and order_by.
_AnalyticFunctionCall_init(function, maybe_arguments, over_clause) ==
    LET partition_by == IF over_clause.partition_by = no_partition_by THEN <<>>
                        ELSE over_clause.partition_by
        order_by == IF over_clause.order_by = no_order_by THEN <<>> ELSE over_clause.order_by
        arguments == IF function = "ROW_NUMBER" THEN <<Value(1, "INTEGER")>>
                     ELSE IF maybe_arguments = no_arguments THEN <<>>
                     ELSE maybe_arguments
    IN [k |-> "_AnalyticFunctionCall",
        function |-> function,
        order_by_ascending |-> [i \in DOMAIN order_by |->
                                   \/ order_by[i].direction = no_direction
                                   \/ upper(order_by[i].direction) # "DESC"],
        children |-> arguments \o partition_by
                     \o [i \in DOMAIN order_by |-> order_by[i].field],
        num_arguments |-> Len(arguments),
        num_partition_by |-> Len(partition_by)]

\* FunctionCall.create with the OVER clause looked at before the number of
\* arguments.
FunctionCall_create_over_first(function_name, expression, over_clause) ==
    IF upper(function_name) \notin _FUNCTION_MAP
    THEN Raise("NotImplementedError", "Function not implemented", <<upper(function_name)>>)
    ELSE IF over_clause # EMPTY_NODE
    THEN Ok(_AnalyticFunctionCall_init(upper(function_name), expression, over_clause))
    ELSE IF /\ isinstance_AggregatingFunction(upper(function_name))
            /\ (expression = no_arguments \/ Len(expression) # 1)
    THEN Raise("NotImplementedError",
               "Aggregating functions are only supported with 1 argument", <<>>)
    ELSE IF isinstance_AggregatingFunction(upper(function_name))
    THEN Ok(FunctionCall(upper(function_name), expression[1]))
    ELSE Ok([k |-> "_NonAggregatingFunctionCall",
             function |-> upper(function_name),
             children |-> IF expression = no_arguments THEN <<Value(1, "INTEGER")>>
                          ELSE expression])

\* FunctionCall.create
FunctionCall_create(function_name, expression, over_clause) ==
    IF upper(function_name) \notin _FUNCTION_MAP
    THEN Raise("NotImplementedError", "Function not implemented", <<upper(function_name)>>)
    ELSE IF /\ isinstance_AggregatingFunction(upper(function_name))
            /\ (expression = no_arguments \/ Len(expression) # 1)
    THEN Raise("NotImplementedError",
               "Aggregating functions are only supported with 1 argument", <<>>)
    ELSE IF over_clause # EMPTY_NODE
    THEN Ok(_AnalyticFunctionCall_init(upper(function_name), expression, over_clause))
    ELSE IF isinstance_AggregatingFunction(upper(function_name))
    THEN Ok(FunctionCall(upper(function_name), expression[1]))
    ELSE Ok([k |-> "_NonAggregatingFunctionCall",
             function |-> upper(function_name),
             children |-> IF expression = no_arguments THEN <<Value(1, "INTEGER")>>
                          ELSE expression])

\* A node with the state of its function_info: the fields of info added.
with_info(node, info) ==
    [f \in DOMAIN node \cup DOMAIN info |-> IF f \in DOMAIN info THEN info[f] ELSE node[f]]

\* A countee: the str of COUNT(*) or the tuple (modifier, argument);
\* no_modifier stands for the EMPTY_NODE of a missing modifier.
no_modifier == ""
CounteeStr(str) == [str |-> str]
CounteeTuple(maybe_distinct, argument) ==
    [maybe_distinct |-> maybe_distinct, argument |-> argument]

\* Count.create_count_function_call
Count_create_count_function_call(countee, over_clause) ==
    LET isinstance_str == "str" \in DOMAIN countee
        maybe_distinct == IF isinstance_str THEN no_modifier ELSE countee.maybe_distinct
        argument == IF isinstance_str THEN Value(1, "INTEGER") ELSE countee.argument
        function == [distinct |-> maybe_distinct = "DISTINCT"]
    IN IF isinstance_str /\ countee.str # "*"
       THEN Raise("ValueError", "Invalid expression COUNT", <<countee.str>>)
       ELSE IF maybe_distinct \notin {"DISTINCT", no_modifier}
       THEN Raise("NotImplementedError",
                  "Non-DISTINCT modifiers for COUNT are not implemented", <<maybe_distinct>>)
       ELSE IF over_clause = EMPTY_NODE
       THEN Ok(with_info(FunctionCall("COUNT", argument), function))
       ELSE Ok(with_info(_AnalyticFunctionCall_init("COUNT", <<argument>>, over_clause),
                         function))

\* Array_agg.__init__ and Array_agg.create_function_call; no_modifier stands
\* for the EMPTY_NODE of a missing DISTINCT or NULLS modifier.
Array_agg_init(distinct, nulls, order_by, limit) ==
    IF distinct \notin {"DISTINCT", no_modifier}
    THEN Raise("ValueError", "Invalid syntax: ARRAY_AGG", <<distinct>>)
    ELSE IF nulls \notin {"IGNORE", "RESPECT", no_modifier}
    THEN Raise("ValueError", "Invalid Syntax: ARRAY_AGG", <<nulls>>)
    ELSE Ok([distinct |-> distinct = "DISTINCT", drop_nulls |-> nulls = "IGNORE",
             order_by |-> order_by, limit |-> limit])

Array_agg_create_function_call(distinct, expression, nulls, order_by, limit, over_clause) ==
    LET function == Array_agg_init(distinct, nulls, order_by, limit)
    IN IF ~function.ok THEN function
       ELSE IF over_clause = EMPTY_NODE
       THEN Ok(with_info(FunctionCall("ARRAY_AGG", expression), function.value))
       ELSE Ok(with_info(_AnalyticFunctionCall_init("ARRAY_AGG", <<expression>>, over_clause),
                         function.value))

\* Exists._evaluate_leaf_node from a row of the context's table on: the calls
\* of subquery.get_dataframe, one per row up to the first that raises, each
\* with the table of its row context. pd.DataFrame([row], index=index) repeats
\* the one row for every label of the index. A call leaves its fields in the
\* subquery node, where the next call finds them.
RECURSIVE Exists_calls(_, _, _, _, _)
Exists_row(subquery, context, datasets, legacy_pandas, row, single_row_df, call) ==
    <<[table |-> single_row_df, outcome |-> call.outcome,
       assignments |-> Select_get_dataframe_assignments(
                           subquery, [context EXCEPT !.table = single_row_df], call)]>>
    \o (IF call.outcome.ok
        THEN Exists_calls([subquery EXCEPT !.fields = call.fields], context, datasets,
                          legacy_pandas, row + 1)
        ELSE <<>>)

Exists_single_row_df(context, row) ==
    TypedDataFrame(
        DataFrame(context.table.dataframe.columns, context.table.dataframe.index,
                  [r \in DOMAIN context.table.dataframe.index |->
                      context.table.dataframe.data[row]]),
        context.table.types)

Exists_calls(subquery, context, datasets, legacy_pandas, row) ==
    IF row > Len(context.table.dataframe.data) THEN <<>>
    ELSE Exists_row(subquery, context, datasets, legacy_pandas, row,
                    Exists_single_row_df(context, row),
                    Select_get_dataframe(
                        subquery, datasets,
                        [context EXCEPT !.table = Exists_single_row_df(context, row)],
                        legacy_pandas))

\* Exists._evaluate_leaf_node: the outcome for the calls made.
Exists_evaluate_leaf_node(context, calls) ==
    IF \E i \in DOMAIN calls : ~calls[i].outcome.ok
    THEN calls[Len(calls)].outcome
    ELSE Ok(TypedSeries(
             Series(_get_index(context),
                    [i \in DOMAIN calls |->
                        IF Len(calls[i].outcome.value.table.dataframe.data) > 0
                        THEN <<1>> ELSE <<0>>],
                    NoName),
             "BOOLEAN"))

\* The table of the fresh context of _AnalyticFunctionCall._evaluate_node:
\* every evaluated child is a column of it, named by its position.
AnalyticTable(evaluated_children) ==
    DataFrame([c \in DOMAIN evaluated_children |-> <<c>>],
              evaluated_children[1].series.index,
              [r \in DOMAIN evaluated_children[1].series.data |->
                  [c \in DOMAIN evaluated_children |-> evaluated_children[c].series.data[r]]])

\* _AnalyticFunctionCall._evaluate_node from the sorted table on: the table is
\* grouped by the PARTITION BY columns, or by a constant column, and the
\* function is applied to the argument column of every group by transform,
\* which gives a value for every row.
_AnalyticFunctionCall_transform(self, evaluated_children, frame) ==
    LET partition_of(r) == [i \in 1..self.num_partition_by |->
                               frame.data[r][self.num_arguments + i]]
        group(r) == SelectSeq([s \in DOMAIN frame.data |-> s],
                              LAMBDA s : partition_of(s) = partition_of(r))
        row_number(r) == Cardinality({s \in DOMAIN frame.data :
                                         s <= r /\ partition_of(s) = partition_of(r)})
    IN IF self.num_arguments # 1
       THEN Raise("ValueError", "wrong number of values to unpack", <<self.num_arguments>>)
       ELSE Ok(TypedSeries(
                Series(frame.index,
                       [r \in DOMAIN frame.data |->
                           IF self.function = "ROW_NUMBER" THEN <<row_number(r)>>
                           ELSE aggregating_function(
                                    self.function,
                                    [i \in DOMAIN group(r) |-> frame.data[group(r)[i]][1]])],
                       NoName),
                compute_result_type(self.function, evaluated_children[1].type_)))

\* _evaluate_node with the table left in the order of the context's rows.
_AnalyticFunctionCall_unsorted(self, evaluated_children) ==
    {_AnalyticFunctionCall_transform(self, evaluated_children,
                                     AnalyticTable(evaluated_children))}

\* _AnalyticFunctionCall._evaluate_node: the outcomes it may have.
_AnalyticFunctionCall_evaluate_node(self, evaluated_children) ==
    {_AnalyticFunctionCall_transform(self, evaluated_children, frame) :
        frame \in IF Len(self.order_by_ascending) = 0
                  THEN {AnalyticTable(evaluated_children)}
                  ELSE sort_values(
                           AnalyticTable(evaluated_children),
                           [i \in DOMAIN self.order_by_ascending |->
                               <<self.num_arguments + self.num_partition_by + i>>],
                           self.order_by_ascending)}

(***************************************************************************)
(* The catalogs and the paths a TableReference is built and evaluated with  *)
(***************************************************************************)
MaxTableReferenceCalls == 2

Projects == {<<"p1">>, <<"p2">>}
Datasets == {<<"d1">>, <<"d2">>}
Tables == {<<"t1">>}

\* The table a catalog holds at project.dataset.table: one INTEGER column whose
\* only cell tells the three names.
CatalogTable(project, dataset, table) ==
    TypedDataFrame(
        DataFrame(<<"a">>, RangeIndex(1),
                  << << <<100 * NameRank(project[1]) + 10 * NameRank(dataset[1])
                          + NameRank(table[1])>> >> >>),
        <<"INTEGER">>)

\* Every catalog over a non-empty set of projects, each with a non-empty set of
\* datasets, each holding the tables.
Catalogs ==
    UNION {
        {[project \in ps |->
            [dataset \in ds[project] |->
                [table \in Tables |-> CatalogTable(project, dataset, table)]]] :
         ds \in [ps -> (SUBSET Datasets) \ {{}}]} :
        ps \in (SUBSET Projects) \ {{}}}

\* The tuples a TableReference is built from: (table), (dataset, table),
\* (project, dataset, table), and the 1-tuples of the same names in one dotted
\* string.
TablePaths ==
    LET parts == {<<t>> : t \in Tables}
                 \cup {<<d, t>> : d \in Datasets, t \in Tables}
                 \cup {<<p, d, t>> : p \in Projects, d \in Datasets, t \in Tables}
        dotted(path) == [i \in DOMAIN path |-> path[i][1]]
    IN parts \cup {<<dotted(path)>> : path \in parts}

(***************************************************************************)
(* The queries and the tables a Select is built and evaluated with          *)
(***************************************************************************)
MaxRows == 2
MaxEvaluations == 2

CellValues == {1, 2}

\* The tables t1(a INTEGER, b INTEGER) of at most MaxRows rows.
SelectTables ==
    LET rows == {<< <<x>>, <<y>> >> : x \in CellValues, y \in CellValues}
    IN UNION {{TypedDataFrame(DataFrame(<<"a", "b">>, RangeIndex(n), data),
                              <<"INTEGER", "INTEGER">>) : data \in [1..n -> rows]} :
              n \in 0..MaxRows}

SelectCatalog(table) ==
    [project \in {<<"p1">>} |-> [dataset \in {<<"d1">>} |-> [t \in {<<"t1">>} |-> table]]]

t1 == DataSource(<< <<"p1">>, <<"d1">>, <<"t1">> >>)
a == Field(<<"a">>)
b == Field(<<"b">>)
sum_a == FunctionCall("SUM", a)
integer(n) == Value(n, "INTEGER")

FieldLists ==
    {<<Selector(a, no_alias)>>,
     <<Selector(b, no_alias)>>,
     <<Selector(a, no_alias), Selector(b, no_alias)>>,
     <<Selector(b, no_alias), Selector(sum_a, no_alias)>>,
     <<Selector(sum_a, "c")>>,
     <<Selector(BinaryExpression(a, "+", integer(1)), "d")>>}

Conditions ==
    {Value(1, "BOOLEAN"), Value(0, "BOOLEAN"),
     BinaryExpression(a, ">", integer(1)), BinaryExpression(a, "=", b),
     a, integer(1)}

Groupers ==
    {<<a>>, <<b>>, <<Field(<<"c">>)>>, <<Field(<<"d">>)>>, <<Field(<<"t1", "b">>)>>}
    \cup {<<integer(n)>> : n \in 0..3}
    \cup {<<Value(1, "BOOLEAN")>>, <<Value(1, "FLOAT")>>, <<Value(1, "STRING")>>}

Havings ==
    {BinaryExpression(sum_a, ">", integer(1)),
     BinaryExpression(b, ">", integer(1)),
     BinaryExpression(Field(<<"c">>), ">", integer(1))}

\* The arguments of Select(...): queries with WHERE, queries with GROUP BY,
\* queries with GROUP BY and HAVING, SELECT DISTINCT, and SELECT b, SUM(a) with
\* WHERE, GROUP BY b and with or without HAVING.
SelectArguments(modifier, fields, where, group_by, having) ==
    [modifier |-> modifier, fields |-> fields, from_ |-> t1, where |-> where,
     group_by |-> group_by, having |-> having]

Queries ==
    {SelectArguments("ALL", fields, where, no_group_by, EMPTY_NODE) :
        fields \in FieldLists, where \in Conditions \cup {EMPTY_NODE}}
    \cup {SelectArguments("ALL", fields, where, group_by, EMPTY_NODE) :
            fields \in FieldLists,
            where \in {EMPTY_NODE},
            group_by \in Groupers}
    \cup {SelectArguments("ALL", fields, EMPTY_NODE, <<b>>, having) :
            fields \in FieldLists, having \in Havings}
    \cup {SelectArguments("DISTINCT", <<Selector(a, no_alias)>>, EMPTY_NODE, no_group_by,
                          EMPTY_NODE)}
    \cup {SelectArguments("ALL", <<Selector(b, no_alias), Selector(sum_a, no_alias)>>,
                          where, <<b>>, having) :
            where \in {BinaryExpression(a, ">", integer(1)), BinaryExpression(a, "=", b)},
            having \in {EMPTY_NODE, BinaryExpression(sum_a, ">", integer(1))}}

(***************************************************************************)
(* The query expressions a QueryExpression is built and evaluated with     *)
(***************************************************************************)
MaxLimit == 2

with_clause == [k |-> "With", names |-> <<"foo", "bar">>]

\* SELECT a, b FROM t1; SELECT DISTINCT a FROM t2 and SELECT a FROM t2, t2 a
\* table no catalog has.
select_a_b ==
    Select_init("ALL", <<Selector(a, no_alias), Selector(b, no_alias)>>, t1, EMPTY_NODE,
                no_group_by, EMPTY_NODE).value
select_distinct ==
    Select_init("DISTINCT", <<Selector(a, no_alias)>>,
                DataSource(<< <<"p1">>, <<"d1">>, <<"t2">> >>), EMPTY_NODE, no_group_by,
                EMPTY_NODE).value
select_from_t2 ==
    Select_init("ALL", <<Selector(a, no_alias)>>,
                DataSource(<< <<"p1">>, <<"d1">>, <<"t2">> >>), EMPTY_NODE, no_group_by,
                EMPTY_NODE).value

SortKeys ==
    {a, b, Field(<<"c">>), BinaryExpression(a, "+", integer(1)),
     Value(1, "BOOLEAN"), Value(1, "FLOAT"), Value(1, "STRING")}
    \cup {integer(n) : n \in 0..3}

Directions == {no_direction, "ASC", "DESC"}

OrderBys ==
    {<<OrderKey(field, direction)>> : field \in SortKeys, direction \in Directions}
    \cup {<<OrderKey(first, direction1), OrderKey(second, direction2)>> :
            first \in {a, b, integer(1)}, second \in {a, b, integer(2), Value(1, "STRING")},
            direction1 \in {"ASC", "DESC"}, direction2 \in {no_direction, "DESC"}}

Limits ==
    {Limit(integer(limit), offset) :
        limit \in 0..MaxLimit, offset \in {EMPTY_NODE} \cup {integer(n) : n \in 0..MaxLimit}}

QueryExpressions ==
    {QueryExpression(EMPTY_NODE, select_a_b, order_by, EMPTY_NODE) :
        order_by \in OrderBys \cup {no_order_by}}
    \cup {QueryExpression(EMPTY_NODE, select_a_b, order_by, limit) :
            order_by \in {no_order_by, <<OrderKey(a, "DESC")>>,
                          <<OrderKey(b, "DESC"), OrderKey(a, no_direction)>>},
            limit \in Limits}
    \cup {QueryExpression(with_expression, base_query, order_by, limit) :
            with_expression \in {EMPTY_NODE, with_clause},
            base_query \in {select_a_b, select_distinct, select_from_t2},
            order_by \in {no_order_by, <<OrderKey(a, no_direction)>>},
            limit \in {EMPTY_NODE, Limit(integer(1), EMPTY_NODE)}}

(***************************************************************************)
(* The expressions evaluated on the tables of t1                            *)
(***************************************************************************)
\* The arguments of Case(comparand, whens, else_): one or two WHENs over the
\* columns of t1, boolean and not, with THENs and ELSEs of several types (the
\* literals 5.0 and 'foo' are told apart by the numbers 5 and 7), CASE a WHEN
\* ... and arguments the constructor refuses.
Cases ==
    LET conditions == {Value(0, "BOOLEAN"), BinaryExpression(a, ">", integer(1)),
                       BinaryExpression(a, "=", b), a}
        thens == {a, b, Value(5, "FLOAT"), Value(7, "STRING")}
        elses == {EMPTY_NODE, integer(0), Value(7, "STRING")}
        whens == {<<when, then>> : when \in conditions, then \in thens}
    IN {[comparand |-> EMPTY_NODE, whens |-> <<when>>, else_ |-> else_] :
           when \in whens, else_ \in elses}
       \cup {[comparand |-> EMPTY_NODE, whens |-> <<first, second>>, else_ |-> else_] :
               first \in whens, second \in whens, else_ \in elses}
       \cup {[comparand |-> a, whens |-> <<<<integer(1), b>>, <<b, integer(0)>>>>,
              else_ |-> else_] : else_ \in elses}
       \cup {[comparand |-> comparand, whens |-> whens_, else_ |-> EMPTY_NODE] :
               comparand \in {EMPTY_NODE, t1},
               whens_ \in {<<>>, <<<<t1, a>>>>, <<<<a, b>>, <<t1, a>>>>}}

\* The arguments of FunctionCall.create: names in several cases, argument
\* lists of 0, 1 and 2 expressions and no list, with and without OVER.
FunctionNames ==
    {"sum", "Sum", "SUM", "min", "MAX", "mod", "MOD", "row_number", "Row_Number",
     "count", "COUNT", "array_agg", "foo"}

ArgumentLists == {no_arguments, <<>>, <<a>>, <<b>>, <<a, b>>}

OverClauses ==
    {[partition_by |-> partition_by, order_by |-> order_by] :
        partition_by \in {no_partition_by, <<a>>, <<b>>},
        order_by \in {no_order_by} \cup
                     {<<OrderKey(field, direction)>> :
                         field \in {a, b}, direction \in {no_direction, "ASC", "desc", "DESC"}}}

\* The subqueries of EXISTS: SELECT a FROM t1, with a WHERE, grouped, one that
\* names a column no table has, and one with WHERE, GROUP BY and HAVING.
Subqueries ==
    {Select_init("ALL", <<Selector(a, no_alias)>>, t1, where, no_group_by,
                 EMPTY_NODE).value :
        where \in {EMPTY_NODE, Value(0, "BOOLEAN"), BinaryExpression(a, ">", integer(1)),
                   BinaryExpression(a, "=", b)}}
    \cup {Select_init("ALL", <<Selector(b, no_alias), Selector(sum_a, no_alias)>>, t1,
                      EMPTY_NODE, <<b>>, EMPTY_NODE).value,
          Select_init("ALL", <<Selector(Field(<<"c">>), no_alias)>>, t1, EMPTY_NODE,
                      no_group_by, EMPTY_NODE).value,
          Select_init("ALL", <<Selector(b, no_alias), Selector(sum_a, no_alias)>>, t1,
                      BinaryExpression(a, ">", integer(1)), <<b>>,
                      BinaryExpression(sum_a, ">", integer(1))).value}

(***************************************************************************)
\* The aggregating functions and the arguments they are called with: a column
\* of t1 or a literal, as in COUNT(*).
AggregatingFunctions == {"SUM", "MIN", "MAX", "COUNT", "ARRAY_AGG"}
AggregateArguments == {a, b, Value(1, "INTEGER")}

\* The countees of COUNT(*), COUNT(a), COUNT(DISTINCT a), COUNT(ALL a) and of
\* a str that is not '*'.
Countees ==
    {CounteeStr("*"), CounteeStr("a"), CounteeTuple(no_modifier, a),
     CounteeTuple("DISTINCT", a), CounteeTuple("ALL", a)}

\* The tables t1(a INTEGER, b INTEGER) of at most MaxCountRows rows, a NULL in
\* some rows.
MaxCountRows == 3

CountTables ==
    LET rows == {<<x, <<y>> >> : x \in {<<v>> : v \in CellValues} \cup {NaN},
                                  y \in CellValues}
    IN UNION {{TypedDataFrame(DataFrame(<<"a", "b">>, RangeIndex(n), data),
                              <<"INTEGER", "INTEGER">>) : data \in [1..n -> rows]} :
              n \in 0..MaxCountRows}

\* The select lists of at most MaxSelectors Selectors: a column, an aggregate
\* or a sum, with or without an alias.
MaxSelectors == 3

Selectors ==
    {Selector(child, alias) :
        child \in {a, sum_a, BinaryExpression(a, "+", integer(1))},
        alias \in {no_alias, "c"}}

SelectorLists == UNION {[1..n -> Selectors] : n \in 1..MaxSelectors}

\* The IN checks: a column against up to MaxElements literals and columns, in
\* the context of FROM t1 with or without a WHERE that has filtered its rows.
MaxElements == 2

InCheckDirections == {"IN", "NOT_IN", "NOT IN"}

InCheckElements ==
    UNION {[1..n -> {a, b, integer(1), integer(2)}] : n \in 1..MaxElements}

InCheckWheres ==
    {EMPTY_NODE, BinaryExpression(a, ">", integer(1)), BinaryExpression(a, "=", b)}

\* The array literals: with and without a declared type, without values,
\* with no value list at all, and with up to MaxArrayValues values.
MaxArrayValues == 2

no_values == <<EMPTY_NODE>>

ArrayTypes == {EMPTY_NODE} \cup {BQArray(type_) : type_ \in BQScalarType}

ArrayValues ==
    {no_values}
    \cup UNION {[1..n -> {a, integer(1), Value(5, "FLOAT"), Value(7, "STRING"),
                           Value(1, "BOOLEAN")}] : n \in 1..MaxArrayValues}

\* The call of an aggregating function with one argument and no modifier, as
\* the grammar builds it.
AggregatingCall(function, argument) ==
    IF function = "COUNT"
    THEN Count_create_count_function_call(CounteeTuple(no_modifier, argument),
                                          EMPTY_NODE).value
    ELSE IF function = "ARRAY_AGG"
    THEN Array_agg_create_function_call(no_modifier, argument, no_modifier, no_order_by,
                                        EMPTY_NODE, EMPTY_NODE).value
    ELSE FunctionCall_create(function, <<argument>>, EMPTY_NODE).value

\* The tables t1(a INTEGER, b INTEGER) of at most MaxAggregateRows rows.
MaxAggregateRows == 3

AggregateTables ==
    LET rows == {<< <<x>>, <<y>> >> : x \in CellValues, y \in CellValues}
    IN UNION {{TypedDataFrame(DataFrame(<<"a", "b">>, RangeIndex(n), data),
                              <<"INTEGER", "INTEGER">>) : data \in [1..n -> rows]} :
              n \in 0..MaxAggregateRows}

(* Actions                                                                 *)
(***************************************************************************)
Init ==
    /\ setop_call = Idle
    /\ tref = None
    /\ tref_built = None
    /\ tref_call = Idle
    /\ select = NoneObject
    /\ select_new = Idle
    /\ select_call = Idle
    /\ query = NoneObject
    /\ query_call = Idle
    /\ node_call = Idle

\* One evaluation of a SetOperation node whose sub-queries return left and right.
EvaluateSetOperation ==
    /\ setop_call = Idle
    /\ \E left \in LeftResults, right \in RightResults, set_operator \in SetOperators,
          legacy_pandas \in BOOLEAN :
           setop_call' = [op |-> "SetOperation.get_dataframe",
                          left |-> left, right |-> right, set_operator |-> set_operator,
                          outcome |-> SetOperation_get_dataframe(left, set_operator,
                                                                 right, legacy_pandas)]
    /\ UNCHANGED <<tref, tref_built, tref_call, select, select_new, select_call,
                   query, query_call, node_call>>

\* TableReference(path)
NewTableReference ==
    /\ tref = None
    /\ \E path \in TablePaths :
           /\ tref' = TableReference_init(path)
           /\ tref_built' = TableReference_init(path)
           /\ tref_call' = [op |-> "TableReference", n |-> 0, path |-> path]
    /\ UNCHANGED <<setop_call, select, select_new, select_call, query, query_call,
                   node_call>>

\* table_reference.get_dataframe(datasets), on the node as earlier calls left it.
GetTableReferenceDataframe ==
    /\ tref # None
    /\ tref_call.n < MaxTableReferenceCalls
    /\ \E datasets \in Catalogs :
           LET call == TableReference_get_dataframe(tref, datasets)
           IN /\ tref' = call.path
              /\ tref_call' = [op |-> "TableReference.get_dataframe",
                               n |-> tref_call.n + 1,
                               self |-> tref,
                               datasets |-> datasets,
                               outcome |-> call.outcome]
    /\ UNCHANGED <<setop_call, tref_built, select, select_new, select_call, query,
                   query_call, node_call>>

\* Select(modifier, fields, from_, where, group_by, having)
NewSelect ==
    /\ select_new = Idle
    /\ \E q \in Queries :
           LET built == Select_init(q.modifier, q.fields, q.from_, q.where, q.group_by,
                                    q.having)
           IN /\ select' = IF built.ok THEN built.value ELSE NoneObject
              /\ select_new' = [op |-> "Select", arguments |-> q, outcome |-> built]
    /\ UNCHANGED <<setop_call, tref, tref_built, tref_call, select_call, query, query_call,
                   node_call>>

\* What a call of get_dataframe leaves in the node and in the record of the call.
SelectEvaluated(table, legacy_pandas, call) ==
    /\ select' = [select EXCEPT !.fields = call.fields]
    /\ select_call' = [op |-> "Select.get_dataframe",
                       n |-> IF select_call = Idle THEN 1 ELSE select_call.n + 1,
                       self |-> select,
                       table |-> table,
                       datasets |-> SelectCatalog(table),
                       legacy_pandas |-> legacy_pandas,
                       outcome |-> call.outcome,
                       where_table |-> call.where_table,
                       selected |-> call.selected,
                       first |-> IF select_call = Idle THEN call.outcome
                                 ELSE select_call.first]

\* select.get_dataframe(datasets), on the node as earlier calls left it; the
\* calls of one node are on one catalog and one pandas.
EvaluateSelect ==
    /\ select # NoneObject
    /\ IF select_call = Idle THEN TRUE ELSE select_call.n < MaxEvaluations
    /\ \E table \in IF select_call = Idle THEN SelectTables ELSE {select_call.table},
          legacy_pandas \in IF select_call = Idle THEN BOOLEAN
                            ELSE {select_call.legacy_pandas} :
           SelectEvaluated(table, legacy_pandas,
                           Select_get_dataframe(select, SelectCatalog(table), NoneObject,
                                                legacy_pandas))
    /\ UNCHANGED <<setop_call, tref, tref_built, tref_call, select_new, query, query_call,
                   node_call>>

\* QueryExpression(with_expression, base_query, order_by, limit)
NewQueryExpression ==
    /\ query = NoneObject
    /\ \E q \in QueryExpressions : query' = q
    /\ UNCHANGED <<setop_call, tref, tref_built, tref_call, select, select_new, select_call,
                   query_call, node_call>>

\* What a call of get_dataframe leaves in the node (the fields of its base
\* query, if that was evaluated) and in the record of the call.
QueryEvaluated(table, legacy_pandas, call) ==
    /\ query' = IF call.base = NotReached THEN query
                ELSE [query EXCEPT !.base_query.fields = call.base.fields]
    /\ query_call' = [op |-> "QueryExpression.get_dataframe",
                      self |-> query,
                      table |-> table,
                      legacy_pandas |-> legacy_pandas,
                      outcome |-> call.outcome,
                      base |-> call.base,
                      ordered |-> call.ordered]

\* query_expression.get_dataframe(datasets)
EvaluateQueryExpression ==
    /\ query # NoneObject
    /\ query_call = Idle
    /\ \E table \in SelectTables, legacy_pandas \in BOOLEAN :
           \E call \in QueryExpression_get_dataframe(query, SelectCatalog(table),
                                                     legacy_pandas) :
               QueryEvaluated(table, legacy_pandas, call)
    /\ UNCHANGED <<setop_call, tref, tref_built, tref_call, select, select_new, select_call,
                   node_call>>

\* Case(comparand, whens, else_).evaluate(context), in the context of FROM t1;
\* children holds the evaluated children.
EvaluateCase ==
    /\ node_call = Idle
    /\ \E case \in Cases, table \in SelectTables :
           LET built == Case_init(case.comparand, case.whens, case.else_)
               context == create_context(t1, SelectCatalog(table)).value
               children == IF built.ok THEN evaluate_children(built.value.children, context)
                           ELSE built
           IN node_call' = [op |-> "Case.evaluate",
                            arguments |-> case,
                            table |-> table,
                            children |-> IF children.ok THEN children.value ELSE <<>>,
                            outcome |-> IF children.ok THEN Case_evaluate_node(children.value)
                                        ELSE children]
    /\ UNCHANGED <<setop_call, tref, tref_built, tref_call, select, select_new, select_call,
                   query, query_call>>

\* FunctionCall.create(function_name, expression, over_clause)
CreateFunctionCall ==
    /\ node_call = Idle
    /\ \E function_name \in FunctionNames, expression \in ArgumentLists,
          over_clause \in OverClauses \cup {EMPTY_NODE} :
           node_call' = [op |-> "FunctionCall.create",
                         function_name |-> function_name,
                         expression |-> expression,
                         over_clause |-> over_clause,
                         outcome |-> FunctionCall_create(function_name, expression,
                                                         over_clause)]
    /\ UNCHANGED <<setop_call, tref, tref_built, tref_call, select, select_new, select_call,
                   query, query_call>>

\* Exists(subquery).evaluate(context), in the context of FROM t1, whose table
\* context is the catalog; calls holds the calls of subquery.get_dataframe.
EvaluateExists ==
    /\ node_call = Idle
    /\ \E subquery \in Subqueries, table \in SelectTables, legacy_pandas \in BOOLEAN :
           LET context == create_context(t1, SelectCatalog(table)).value
               calls == Exists_calls(subquery, context, SelectCatalog(table), legacy_pandas,
                                     1)
           IN node_call' = [op |-> "Exists.evaluate",
                            subquery |-> subquery,
                            table |-> table,
                            legacy_pandas |-> legacy_pandas,
                            calls |-> calls,
                            outcome |-> Exists_evaluate_leaf_node(context, calls)]
    /\ UNCHANGED <<setop_call, tref, tref_built, tref_call, select, select_new, select_call,
                   query, query_call>>

\* _AggregatingFunctionCall(function_info, [argument]).evaluate(context) in
\* the context of FROM t1, as it is or grouped by a column.
EvaluateAggregatingFunctionCall ==
    /\ node_call = Idle
    /\ \E function \in AggregatingFunctions, argument \in AggregateArguments,
          group_by \in {<<>>, <<a>>, <<b>>}, table \in AggregateTables :
           LET self == AggregatingCall(function, argument)
               context == create_context(t1, SelectCatalog(table)).value
               grouped == do_group_by(context, <<self>>, group_by).value
           IN node_call' = [op |-> "_AggregatingFunctionCall.evaluate",
                            self |-> self,
                            group_by |-> group_by,
                            table |-> table,
                            outcome |-> IF group_by = <<>> THEN evaluate(self, context)
                                        ELSE evaluate(grouped.fields[1], grouped.context)]
    /\ UNCHANGED <<setop_call, tref, tref_built, tref_call, select, select_new, select_call,
                   query, query_call>>

\* Count.create_count_function_call(countee, EMPTY_NODE) and, of the call it
\* returns, evaluate(context) in the context of FROM t1, as it is or grouped by
\* b.
EvaluateCount ==
    /\ node_call = Idle
    /\ \E countee \in Countees, group_by \in {<<>>, <<b>>}, table \in CountTables :
           LET created == Count_create_count_function_call(countee, EMPTY_NODE)
               context == create_context(t1, SelectCatalog(table)).value
               grouped == do_group_by(context, <<created.value>>, group_by).value
           IN node_call' = [op |-> "Count.evaluate",
                            countee |-> countee,
                            created |-> created,
                            group_by |-> group_by,
                            table |-> table,
                            outcome |-> IF ~created.ok THEN created
                                        ELSE IF group_by = <<>>
                                        THEN evaluate(created.value, context)
                                        ELSE evaluate(grouped.fields[1], grouped.context)]
    /\ UNCHANGED <<setop_call, tref, tref_built, tref_call, select, select_new, select_call,
                   query, query_call>>

\* Array_agg.create_function_call(distinct, a, nulls, order_by, limit,
\* EMPTY_NODE) and, of the call it returns, evaluate(context) in the context of
\* FROM t1, as it is or grouped by b.
EvaluateArrayAgg ==
    /\ node_call = Idle
    /\ \E distinct \in {no_modifier, "DISTINCT"}, nulls \in {no_modifier, "IGNORE"},
          order_by \in {no_order_by, <<OrderKey(a, no_direction)>>},
          limit \in {EMPTY_NODE, Value(1, "INTEGER")},
          group_by \in {<<>>, <<b>>}, table \in CountTables :
           LET self == Array_agg_create_function_call(distinct, a, nulls, order_by, limit,
                                                      EMPTY_NODE).value
               context == create_context(t1, SelectCatalog(table)).value
               grouped == do_group_by(context, <<self>>, group_by).value
           IN node_call' = [op |-> "Array_agg.evaluate",
                            self |-> self,
                            group_by |-> group_by,
                            table |-> table,
                            outcome |-> IF group_by = <<>> THEN evaluate(self, context)
                                        ELSE evaluate(grouped.fields[1], grouped.context)]
    /\ UNCHANGED <<setop_call, tref, tref_built, tref_call, select, select_new, select_call,
                   query, query_call>>

\* The context of the fields of SELECT ... FROM t1 [WHERE where]: the WHERE
\* filter of Select.get_dataframe applied to the context of FROM t1.
ContextAfterWhere(table, where) ==
    IF where = EMPTY_NODE THEN create_context(t1, SelectCatalog(table)).value
    ELSE [create_context(t1, SelectCatalog(table)).value EXCEPT
             !.table = TypedDataFrame(
                 Select_where(create_context(t1, SelectCatalog(table)).value,
                              evaluate(where, create_context(t1, SelectCatalog(table)).value),
                              FALSE).value,
                 table.types)]

\* InCheck(expression, direction, elements).evaluate(context)
EvaluateInCheck ==
    /\ node_call = Idle
    /\ \E expression \in {a, b}, direction \in InCheckDirections,
          elements \in InCheckElements, table \in SelectTables, where \in InCheckWheres :
           LET built == InCheck_init(expression, direction, elements)
               children == IF built.ok
                           THEN evaluate_children(built.value.children,
                                                  ContextAfterWhere(table, where))
                           ELSE built
           IN node_call' = [op |-> "InCheck.evaluate",
                            direction |-> direction,
                            where |-> where,
                            table |-> table,
                            children |-> IF children.ok THEN children.value ELSE <<>>,
                            outcome |-> IF children.ok
                                        THEN InCheck_evaluate_node(built.value,
                                                                   children.value)
                                        ELSE children]
    /\ UNCHANGED <<setop_call, tref, tref_built, tref_call, select, select_new, select_call,
                   query, query_call>>

\* Array(maybe_type, maybe_values).evaluate(context) in the context of
\* FROM t1.
EvaluateArray ==
    /\ node_call = Idle
    /\ \E maybe_type \in ArrayTypes, maybe_values \in ArrayValues, table \in SelectTables :
           LET self == Array_init(maybe_type, maybe_values)
               context == create_context(t1, SelectCatalog(table)).value
               children == evaluate_children(self.children, context)
           IN node_call' = [op |-> "Array.evaluate",
                            maybe_type |-> maybe_type,
                            self |-> self,
                            table |-> table,
                            outcome |-> IF children.ok
                                        THEN Array_evaluate_node(self, children.value)
                                        ELSE children]
    /\ UNCHANGED <<setop_call, tref, tref_built, tref_call, select, select_new, select_call,
                   query, query_call>>

\* Case(comparand, whens, else_).copy(children), with the children of the
\* node itself.
CopyCase ==
    /\ node_call = Idle
    /\ \E case \in Cases :
           LET built == Case_init(case.comparand, case.whens, case.else_)
           IN /\ built.ok
              /\ node_call' = [op |-> "Case.copy",
                               self |-> built.value,
                               new_children |-> built.value.children,
                               outcome |-> Case_copy(built.value, built.value.children)]
    /\ UNCHANGED <<setop_call, tref, tref_built, tref_call, select, select_new, select_call,
                   query, query_call>>

\* fields[i].name(), of a Selector as Selector(...) built it, or after
\* Select(modifier, fields, ...) was built with the list.
CallSelectorName ==
    /\ node_call = Idle
    /\ \E fields \in SelectorLists, populated \in BOOLEAN :
           \E i \in DOMAIN fields :
               LET self == IF populated
                           THEN Select_init("ALL", fields, t1, EMPTY_NODE, no_group_by,
                                            EMPTY_NODE).value.fields[i]
                           ELSE fields[i]
               IN node_call' = [op |-> "Selector.name",
                                fields |-> fields,
                                i |-> i,
                                populated |-> populated,
                                self |-> self,
                                outcome |-> Selector_name(self)]
    /\ UNCHANGED <<setop_call, tref, tref_built, tref_call, select, select_new, select_call,
                   query, query_call>>

\* FunctionCall.create(function_name, expression, over_clause).evaluate(context)
\* for ROW_NUMBER() OVER and SUM, MIN and MAX(a) OVER, in the context of FROM t1.
EvaluateAnalyticFunctionCall ==
    /\ node_call = Idle
    /\ \E function_name \in {"row_number", "sum", "min", "MAX"},
          over_clause \in OverClauses, table \in SelectTables :
           LET self == FunctionCall_create(
                           function_name,
                           IF function_name = "row_number" THEN no_arguments ELSE <<a>>,
                           over_clause).value
               children == evaluate_children(
                               self.children,
                               create_context(t1, SelectCatalog(table)).value).value
           IN \E outcome \in _AnalyticFunctionCall_evaluate_node(self, children) :
                  node_call' = [op |-> "_AnalyticFunctionCall.evaluate",
                                self |-> self,
                                over_clause |-> over_clause,
                                table |-> table,
                                outcome |-> outcome]
    /\ UNCHANGED <<setop_call, tref, tref_built, tref_call, select, select_new, select_call,
                   query, query_call>>

NextSetOperation == EvaluateSetOperation

SpecSetOperation == Init /\ [][NextSetOperation]_vars

NextTableReference == NewTableReference \/ GetTableReferenceDataframe

SpecTableReference == Init /\ [][NextTableReference]_vars

NextSelect == NewSelect \/ EvaluateSelect

SpecSelect == Init /\ [][NextSelect]_vars

NextQueryExpression == NewQueryExpression \/ EvaluateQueryExpression

SpecQueryExpression == Init /\ [][NextQueryExpression]_vars

NextEvaluatableNode ==
    \/ EvaluateCase
    \/ EvaluateExists
    \/ CreateFunctionCall
    \/ EvaluateAnalyticFunctionCall

SpecEvaluatableNode == Init /\ [][NextEvaluatableNode]_vars

NextAggregatingFunctionCall == EvaluateAggregatingFunctionCall

SpecAggregatingFunctionCall == Init /\ [][NextAggregatingFunctionCall]_vars

NextCount == EvaluateCount

SpecCount == Init /\ [][NextCount]_vars

NextArrayAgg == EvaluateArrayAgg

SpecArrayAgg == Init /\ [][NextArrayAgg]_vars

NextSelector == CallSelectorName

NextArray == EvaluateArray

NextCaseCopy == CopyCase

NextInCheck == EvaluateInCheck

SpecInCheck == Init /\ [][NextInCheck]_vars

SpecCaseCopy == Init /\ [][NextCaseCopy]_vars

SpecArray == Init /\ [][NextArray]_vars

SpecSelector == Init /\ [][NextSelector]_vars

(***************************************************************************)
(* SetOperation: claims                                                    *)
(***************************************************************************)
SetOperationCalled == setop_call.op = "SetOperation.get_dataframe"

Coercible(left, right) ==
    /\ Len(left.types) = Len(right.types)
    /\ \A i \in DOMAIN left.types :
           implicitly_coerce(left.types[i], right.types[i]) # CannotCoerce

\* C1: a UNION_ALL of two sides with k columns each and pairwise coercible
\* types, whatever the column names, returns k columns, the left rows followed
\* by the right rows, each in their order, the coerced types and the name None.
C1_UnionAllConcatenatesRows ==
    (/\ SetOperationCalled
     /\ setop_call.set_operator = "UNION_ALL"
     /\ Coercible(setop_call.left, setop_call.right))
    => /\ setop_call.outcome.ok
       /\ LET result == setop_call.outcome.value
              left == setop_call.left
              right == setop_call.right
          IN /\ Len(result.table.dataframe.columns) = Len(left.types)
             /\ result.table.dataframe.data = left.dataframe.data \o right.dataframe.data
             /\ result.table.types =
                    [i \in DOMAIN left.types |->
                        implicitly_coerce(left.types[i], right.types[i])]
             /\ result.name = None

\* C2: sides with different column counts raise ValueError 'mismatched column
\* count: L vs R', left count first, whichever side is larger and even when a
\* column pair does not coerce; no table is returned.
C2_ColumnCountMismatchRaisesFirst ==
    (/\ SetOperationCalled
     /\ Len(setop_call.left.types) # Len(setop_call.right.types))
    => /\ Raised(setop_call.outcome, "ValueError",
                 "Queries in UNION ALL have mismatched column count")
       /\ setop_call.outcome.args =
              <<Len(setop_call.left.types), Len(setop_call.right.types)>>

\* C2 witness: a call whose left side has more columns than its right side and
\* whose first column pair does not coerce has raised.
C2_Witness ==
    /\ SetOperationCalled
    /\ Len(setop_call.left.types) > Len(setop_call.right.types)
    /\ implicitly_coerce(setop_call.left.types[1], setop_call.right.types[1]) = CannotCoerce
    /\ ~setop_call.outcome.ok

\* C3: an operator other than UNION_ALL always fails with the not-implemented
\* error naming the operator, whatever the two sides are.
C3_OtherOperatorsNotImplemented ==
    (/\ SetOperationCalled
     /\ setop_call.set_operator # "UNION_ALL")
    => /\ Raised(setop_call.outcome, "NotImplementedError", "set operation not implemented")
       /\ setop_call.outcome.args = <<setop_call.set_operator>>

(***************************************************************************)
(* TableReference: claims                                                  *)
(***************************************************************************)
\* C5: a TableReference built with a 1- or 2-part path and evaluated before
\* gives, on any catalog, the outcome a freshly built node with that path gives.
C5_TableReferenceRetainsNothing ==
    (/\ tref_call.op = "TableReference.get_dataframe"
     /\ Len(tref_built) < 3)
    => tref_call.outcome =
          TableReference_get_dataframe(tref_built, tref_call.datasets).outcome

\* The call has looked up the 3-part path in its catalog: it has returned the
\* table there and the path's table part, or raised KeyError for a part the
\* catalog lacks.
LookedUp(path) ==
    LET datasets == tref_call.datasets
    IN IF /\ path[1] \in DOMAIN datasets
          /\ path[2] \in DOMAIN datasets[path[1]]
          /\ path[3] \in DOMAIN datasets[path[1]][path[2]]
       THEN tref_call.outcome = Ok([table |-> datasets[path[1]][path[2]][path[3]],
                                    name |-> path[3]])
       ELSE /\ ~tref_call.outcome.ok
            /\ tref_call.outcome.exc = "KeyError"

\* The call has raised ValueError with the message, naming the node's path and
\* the candidates in lexical order.
Ambiguous(msg, candidates) ==
    /\ Raised(tref_call.outcome, "ValueError", msg)
    /\ tref_call.outcome.args[1] = tref_call.self
    /\ LET named == tref_call.outcome.args[2]
       IN /\ Range(named) = candidates
          /\ \A i, j \in DOMAIN named : i < j => StrLess(named[i], named[j])

\* C14: a node built from one dotted string has the string's parts as its
\* path; get_dataframe on a node whose path has 3 parts looks the path up as
\* it is, and on a node whose path has 2 parts or 1 completes it with the
\* catalog's only project (and that project's only dataset) and looks it up,
\* or raises ValueError naming the path and the sorted projects (datasets)
\* when there are several.
C14_TableReferenceResolvesPath ==
    /\ (tref_call.op = "TableReference" /\ Len(tref_call.path) = 1)
       => /\ tref = [i \in DOMAIN tref_call.path[1] |-> <<tref_call.path[1][i]>>]
          /\ \A i \in DOMAIN tref : Len(tref[i]) = 1
    /\ (tref_call.op = "TableReference" /\ Len(tref_call.path) > 1)
       => tref = tref_call.path
    /\ tref_call.op = "TableReference.get_dataframe"
       => LET path == tref_call.self
              projects == DOMAIN tref_call.datasets
          IN /\ Len(path) \in 1..3
             /\ Len(path) = 3 => LookedUp(path)
             /\ (Len(path) < 3 /\ Cardinality(projects) # 1)
                => Ambiguous("Non-fully-qualified table with multiple possible projects",
                             projects)
             /\ (Len(path) = 2 /\ Cardinality(projects) = 1)
                => \A project \in projects : LookedUp(<<project>> \o path)
             /\ (Len(path) = 1 /\ Cardinality(projects) = 1)
                => \A project \in projects :
                       LET names == DOMAIN tref_call.datasets[project]
                       IN IF Cardinality(names) # 1
                          THEN Ambiguous(
                                   "Non-fully-qualified table with multiple possible datasets",
                                   names)
                          ELSE \A dataset \in names : LookedUp(<<project, dataset>> \o path)

\* C14 witness: a node built from a table name alone has been evaluated on a
\* catalog of one project with two datasets and has raised the error naming
\* them.
C14_Witness ==
    /\ tref_call.op = "TableReference.get_dataframe"
    /\ tref_call.n = 1
    /\ Len(tref_call.self) = 1
    /\ Cardinality(DOMAIN tref_call.datasets) = 1
    /\ Raised(tref_call.outcome, "ValueError",
              "Non-fully-qualified table with multiple possible datasets")
    /\ Len(tref_call.outcome.args[2]) = 2

(***************************************************************************)
(* Select: claims                                                          *)
(***************************************************************************)
SelectCalled == select_call.op = "Select.get_dataframe"

\* The node as Select(...) built it.
SelectBuilt == select_new.outcome.value

\* C4: after a call of get_dataframe the node is what it was before the call,
\* and the call returns what the first call on that node and catalog returned.
C4_SelectNodeUnmodified ==
    SelectCalled =>
        /\ select = select_call.self
        /\ select_call.outcome = select_call.first

\* A condition whose type is BOOLEAN: a boolean literal or a comparison.
BooleanCondition(condition) ==
    \/ condition.k = "Value" /\ condition.type_ = "BOOLEAN"
    \/ condition.k = "BinaryExpression" /\ condition.operator \in {">", "="}

\* The value of an expression over the columns a and b on one row of t1.
RECURSIVE RowValue(_, _)
RowValue(node, row) ==
    IF node.k = "Value" THEN node.value
    ELSE IF node.k = "Field"
    THEN (IF node.path[Len(node.path)] = "a" THEN row[1][1] ELSE row[2][1])
    ELSE IF node.operator = "+" THEN RowValue(node.left, row) + RowValue(node.right, row)
    ELSE IF node.operator = ">"
    THEN (IF RowValue(node.left, row) > RowValue(node.right, row) THEN 1 ELSE 0)
    ELSE (IF RowValue(node.left, row) = RowValue(node.right, row) THEN 1 ELSE 0)

\* C6: with a boolean WHERE condition the table the rest of the evaluation uses
\* has the columns and types of the FROM table and exactly its rows on which
\* the condition is true, in their order.
C6_WhereKeepsTrueRows ==
    (/\ SelectCalled
     /\ select_call.self.modifier # "DISTINCT"
     /\ select_call.self.where # EMPTY_NODE
     /\ BooleanCondition(select_call.self.where))
    => /\ select_call.where_table # NotReached
       /\ select_call.where_table.types = select_call.table.types
       /\ select_call.where_table.dataframe.columns =
              [c \in DOMAIN select_call.table.dataframe.columns |->
                  <<"t1", select_call.table.dataframe.columns[c]>>]
       /\ select_call.where_table.dataframe.data =
              SelectSeq(select_call.table.dataframe.data,
                        LAMBDA row : RowValue(select_call.self.where, row) = 1)

\* C6 witness: a boolean condition has kept some rows of the table and dropped
\* others.
C6_Witness ==
    /\ SelectCalled
    /\ select_call.self.where # EMPTY_NODE
    /\ BooleanCondition(select_call.self.where)
    /\ select_call.where_table # NotReached
    /\ Len(select_call.where_table.dataframe.data) > 0
    /\ Len(select_call.where_table.dataframe.data) < Len(select_call.table.dataframe.data)

\* C7: a WHERE condition whose type is not BOOLEAN makes get_dataframe raise a
\* type error.
C7_NonBooleanWhereRaises ==
    (/\ SelectCalled
     /\ select_call.self.modifier # "DISTINCT"
     /\ select_call.self.where # EMPTY_NODE
     /\ ~BooleanCondition(select_call.self.where))
    => /\ ~select_call.outcome.ok
       /\ select_call.outcome.exc = "TypeError"

\* C8: Select(...) with a literal in GROUP BY that is not an INTEGER raises
\* ValueError.
C8_NonIntegerLiteralRaises ==
    (/\ select_new.op = "Select"
     /\ select_new.arguments.group_by # no_group_by
     /\ \E i \in DOMAIN select_new.arguments.group_by :
            /\ select_new.arguments.group_by[i].k = "Value"
            /\ select_new.arguments.group_by[i].type_ # "INTEGER")
    => Raised(select_new.outcome, "ValueError",
              "Attempt to group by a literal non-integer constant")

\* The names of the columns of t1 a node's groupers name, when every grouper
\* is a Field.
GrouperNames(group_by) == {group_by[i].path[Len(group_by[i].path)] : i \in DOMAIN group_by}

\* The positions of the fields that are a plain column outside the groupers.
UngroupedFields(fields, group_by) ==
    {i \in DOMAIN fields :
        /\ fields[i].child.k = "Field"
        /\ name(fields[i].child) \notin GrouperNames(group_by)}

\* C9: a Select grouped by columns of its table, whose fields are columns and
\* aggregates and one of them a column that is not grouped by, raises
\* ValueError 'selecting expression ... not aggregated or grouped by' naming
\* the first such field, whatever the other fields are.
C9_UngroupedFieldRaises ==
    (/\ SelectCalled
     /\ select_call.self.group_by # no_group_by
     /\ \A i \in DOMAIN select_call.self.group_by :
            /\ select_call.self.group_by[i].k = "Field"
            /\ name(select_call.self.group_by[i]) \in {"a", "b"}
     /\ \A i \in DOMAIN SelectBuilt.fields :
            SelectBuilt.fields[i].child.k \in {"Field", "_AggregatingFunctionCall"}
     /\ UngroupedFields(SelectBuilt.fields, select_call.self.group_by) # {})
    => /\ Raised(select_call.outcome, "ValueError",
                 "selecting expression that is not aggregated or grouped by")
       /\ LET ungrouped == UngroupedFields(SelectBuilt.fields, select_call.self.group_by)
              first == CHOOSE i \in ungrouped : \A j \in ungrouped : i <= j
          IN name(select_call.outcome.args[1]) = name(SelectBuilt.fields[first])

\* C9 witness: a grouping column followed by a column that is not grouped by
\* has raised the error.
C9_Witness ==
    /\ SelectCalled
    /\ select_call.self.group_by # no_group_by
    /\ Len(SelectBuilt.fields) = 2
    /\ UngroupedFields(SelectBuilt.fields, select_call.self.group_by) = {2}
    /\ select_call.self.group_by[1].k = "Field"
    /\ name(select_call.self.group_by[1]) = name(SelectBuilt.fields[1])
    /\ Len(select_call.table.dataframe.data) > 0
    /\ ~select_call.outcome.ok

RECURSIVE SumOfColumn(_, _)
SumOfColumn(rows, column) ==
    IF rows = <<>> THEN 0 ELSE rows[1][column][1] + SumOfColumn(Tail(rows), column)

\* The value of a HAVING expression for the group of key: SUM(a) over the
\* group's rows of the table, b the key, any other name the column of that
\* name in the group's result row.
RECURSIVE GroupValue(_, _, _, _, _)
GroupValue(node, key, rows, result, r) ==
    IF node.k = "Value" THEN node.value
    ELSE IF node.k = "_AggregatingFunctionCall"
    THEN SumOfColumn(SelectSeq(rows, LAMBDA row : row[2][1] = key), 1)
    ELSE IF node.k = "Field"
    THEN (IF name(node) = "b" THEN key
          ELSE result.data[r][ColumnPosition(result, <<name(node)>>)][1])
    ELSE IF GroupValue(node.left, key, rows, result, r)
            > GroupValue(node.right, key, rows, result, r)
    THEN 1 ELSE 0

\* The names a HAVING expression uses.
RECURSIVE Names(_)
Names(node) ==
    IF node.k = "Field" THEN {name(node)}
    ELSE IF node.k = "BinaryExpression" THEN Names(node.left) \cup Names(node.right)
    ELSE IF node.k = "_AggregatingFunctionCall" THEN Names(node.child)
    ELSE {}

\* C10: HAVING on a result grouped by b, its expression over SUM(a), b and the
\* result's columns, returns the result's columns and types and exactly the
\* result's rows whose group makes the expression true, in their order.
C10_HavingKeepsTrueGroups ==
    (/\ SelectCalled
     /\ select_call.self.having # EMPTY_NODE
     /\ select_call.selected # NotReached
     /\ Names(select_call.self.having)
            \subseteq {"a", "b"} \cup {c[1] : c \in Range(select_call.selected.dataframe.columns)})
    => /\ select_call.outcome.ok
       /\ LET selected == select_call.selected
              returned == select_call.outcome.value.table
              holds(r) == GroupValue(select_call.self.having, selected.dataframe.index[r][1],
                                     select_call.where_table.dataframe.data,
                                     selected.dataframe, r) = 1
              kept == SelectSeq([r \in DOMAIN selected.dataframe.data |-> r], holds)
          IN /\ returned.types = selected.types
             /\ returned.dataframe.columns = selected.dataframe.columns
             /\ returned.dataframe.data =
                    [i \in DOMAIN kept |-> selected.dataframe.data[kept[i]]]

\* C10 witness: HAVING on an aggregate that is not among the fields has kept
\* one group of the result and dropped another.
C10_Witness ==
    /\ SelectCalled
    /\ select_call.self.having # EMPTY_NODE
    /\ select_call.self.having.left.k = "_AggregatingFunctionCall"
    /\ \A i \in DOMAIN SelectBuilt.fields : SelectBuilt.fields[i].child.k = "Field"
    /\ select_call.selected # NotReached
    /\ select_call.outcome.ok
    /\ Len(select_call.outcome.value.table.dataframe.data) > 0
    /\ Len(select_call.outcome.value.table.dataframe.data)
           < Len(select_call.selected.dataframe.data)

\* C23: get_dataframe filters by WHERE, then groups, then evaluates the
\* fields, then filters by HAVING. Of SELECT b, SUM(a) ... WHERE w GROUP BY b
\* the result before HAVING has one row for every b among the rows of the
\* table that satisfy w, with the sum of a over those rows only, and HAVING
\* SUM(a) > 1 returns the rows of that result whose sum exceeds 1, in order.
C23_WhereGroupFieldsHaving ==
    (/\ SelectCalled
     /\ select_call.self.where # EMPTY_NODE
     /\ select_call.self.group_by # no_group_by)
    => /\ select_call.outcome.ok
       /\ LET rows == select_call.table.dataframe.data
              passing == SelectSeq(rows, LAMBDA row : RowValue(select_call.self.where, row) = 1)
              keys == SortedLabels({<<passing[i][2][1]>> : i \in DOMAIN passing})
              selected == select_call.selected.dataframe.data
              returned == select_call.outcome.value.table.dataframe.data
          IN /\ select_call.where_table.dataframe.data = passing
             /\ selected =
                    [g \in DOMAIN keys |->
                        <<keys[g],
                          <<SumOfColumn(SelectSeq(passing,
                                                  LAMBDA row : row[2] = keys[g]), 1)>> >>]
             /\ returned =
                    IF select_call.self.having = EMPTY_NODE THEN selected
                    ELSE SelectSeq(selected, LAMBDA row : row[2][1] > 1)

\* C23 witness: WHERE has rejected a row with the b of a row it kept, and the
\* group's sum, without the rejected row, has passed HAVING.
C23_Witness ==
    /\ SelectCalled
    /\ select_call.self.where # EMPTY_NODE
    /\ select_call.self.group_by # no_group_by
    /\ select_call.self.having # EMPTY_NODE
    /\ select_call.outcome.ok
    /\ Len(select_call.table.dataframe.data) = 2
    /\ select_call.table.dataframe.data[1][2] = select_call.table.dataframe.data[2][2]
    /\ Len(select_call.where_table.dataframe.data) = 1
    /\ Len(select_call.outcome.value.table.dataframe.data) = 1

(***************************************************************************)
(* QueryExpression: claims                                                 *)
(***************************************************************************)
QueryCalled == query_call.op = "QueryExpression.get_dataframe"

\* The call got as far as ORDER BY: no WITH, and the base query returned.
OrderByReached ==
    /\ QueryCalled
    /\ query_call.self.with_expression = EMPTY_NODE
    /\ query_call.base.outcome.ok
    /\ query_call.self.order_by # no_order_by

\* C11: an ORDER BY key that is a literal of a type other than INTEGER raises
\* ValueError.
C11_NonIntegerSortKeyRaises ==
    (/\ OrderByReached
     /\ \E i \in DOMAIN query_call.self.order_by :
            /\ query_call.self.order_by[i].field.k = "Value"
            /\ query_call.self.order_by[i].field.type_ # "INTEGER")
    => /\ ~query_call.outcome.ok
       /\ query_call.outcome.exc = "ValueError"

\* Keys that name a column of SELECT a, b: a, b, 1 or 2.
ColumnKeys(order_by) ==
    \A i \in DOMAIN order_by :
        \/ order_by[i].field.k = "Field" /\ order_by[i].field.path \in {<<"a">>, <<"b">>}
        \/ /\ order_by[i].field.k = "Value"
           /\ order_by[i].field.type_ = "INTEGER"
           /\ order_by[i].field.value \in {1, 2}

\* The order of two rows (a, b) under such keys: -1 when the first row sorts
\* before the second, 1 when after, 0 when all their keys are equal.
RECURSIVE KeyOrder(_, _, _)
KeyOrder(order_by, r, s) ==
    IF order_by = <<>> THEN 0
    ELSE LET field == Head(order_by).field
             column == IF field.k = "Value" THEN field.value
                       ELSE IF field.path = <<"a">> THEN 1 ELSE 2
         IN IF r[column] = s[column] THEN KeyOrder(Tail(order_by), r, s)
            ELSE IF (r[column][1] < s[column][1]) = (Head(order_by).direction # "DESC")
            THEN 0 - 1 ELSE 1

\* The position in the base query's result of the row at a position of the
\* ordered table.
BasePosition(i) ==
    CHOOSE r \in DOMAIN query_call.base.selected.dataframe.index :
        query_call.base.selected.dataframe.index[r] = query_call.ordered.dataframe.index[i]

\* C12: two rows of the ordered table whose keys are all equal are in the
\* order they had in the base query's result.
C12_OrderByIsStable ==
    (/\ OrderByReached
     /\ ColumnKeys(query_call.self.order_by)
     /\ query_call.ordered # NotReached)
    => \A i, j \in DOMAIN query_call.ordered.dataframe.data :
           (/\ i < j
            /\ KeyOrder(query_call.self.order_by, query_call.ordered.dataframe.data[i],
                        query_call.ordered.dataframe.data[j]) = 0)
           => BasePosition(i) < BasePosition(j)

\* The literal of a LIMIT or OFFSET, 0 for no OFFSET.
LimitValue(node) == IF node = EMPTY_NODE THEN 0 ELSE node.value

Min(x, y) == IF x < y THEN x ELSE y

\* C13: with LIMIT L and OFFSET O the table after ORDER BY holds the base
\* query's rows, sorted by the keys, and the call returns its rows at the
\* positions O .. O + L - 1, min(L, max(0, n - O)) rows, under the same columns
\* and types.
C13_LimitSlicesOrderedRows ==
    (/\ QueryCalled
     /\ query_call.self.with_expression = EMPTY_NODE
     /\ query_call.self.limit # EMPTY_NODE
     /\ query_call.base.outcome.ok
     /\ query_call.self.order_by # no_order_by => ColumnKeys(query_call.self.order_by))
    => /\ query_call.ordered # NotReached
       /\ query_call.outcome.ok
       /\ LET base == query_call.base.selected
              ordered == query_call.ordered
              returned == query_call.outcome.value.table
              n == Len(base.dataframe.data)
              L == LimitValue(query_call.self.limit.limit)
              O == LimitValue(query_call.self.limit.offset)
              kept == IF n > O THEN Min(L, n - O) ELSE 0
          IN /\ Len(ordered.dataframe.data) = n
             /\ \A i \in 1..n : /\ \E r \in 1..n : base.dataframe.index[r]
                                                    = ordered.dataframe.index[i]
                                /\ ordered.dataframe.data[i]
                                       = base.dataframe.data[BasePosition(i)]
             /\ \A i, j \in 1..n : i # j => BasePosition(i) # BasePosition(j)
             /\ query_call.self.order_by # no_order_by =>
                    \A i, j \in 1..n :
                        i < j => KeyOrder(query_call.self.order_by,
                                          ordered.dataframe.data[i],
                                          ordered.dataframe.data[j]) <= 0
             /\ query_call.self.order_by = no_order_by => ordered = base
             /\ returned.types = base.types
             /\ returned.dataframe.columns = base.dataframe.columns
             /\ Len(returned.dataframe.data) = kept
             /\ \A i \in 1..kept :
                    returned.dataframe.data[i] = ordered.dataframe.data[O + i]
             /\ query_call.outcome.value.name = None

\* C13 witness: LIMIT 1 OFFSET 1 has returned the second row of a table that
\* ORDER BY had put in another order than the base query's.
C13_Witness ==
    /\ QueryCalled
    /\ query_call.self.limit = Limit(integer(1), integer(1))
    /\ query_call.self.order_by # no_order_by
    /\ query_call.ordered # NotReached
    /\ query_call.ordered.dataframe.data # query_call.base.selected.dataframe.data
    /\ query_call.outcome.ok
    /\ Len(query_call.outcome.value.table.dataframe.data) = 1

\* C15: a query expression with WITH raises NotImplementedError and evaluates
\* neither its base query nor ORDER BY nor LIMIT, and a base query SELECT
\* DISTINCT raises NotImplementedError before its FROM, WHERE and fields are
\* evaluated; the node is left as it was.
C15_UnimplementedRejectedFirst ==
    /\ (QueryCalled /\ query_call.self.with_expression # EMPTY_NODE)
       => /\ query_call.outcome = Raise("NotImplementedError",
                                        "WITH expressions are not implemented yet.", <<>>)
          /\ query_call.base = NotReached
          /\ query_call.ordered = NotReached
          /\ query = query_call.self
    /\ (/\ QueryCalled
        /\ query_call.self.with_expression = EMPTY_NODE
        /\ query_call.self.base_query.modifier = "DISTINCT")
       => /\ query_call.outcome = Raise("NotImplementedError",
                                        "SELECT DISTINCT not implemented", <<>>)
          /\ query_call.base.where_table = NotReached
          /\ query_call.base.selected = NotReached
          /\ query_call.ordered = NotReached
          /\ query = query_call.self

\* C15 witness: a query expression with WITH, ORDER BY and LIMIT over a base
\* query whose table no catalog has has raised NotImplementedError.
C15_Witness ==
    /\ QueryCalled
    /\ query_call.self.with_expression # EMPTY_NODE
    /\ query_call.self.base_query = select_from_t2
    /\ query_call.self.order_by # no_order_by
    /\ query_call.self.limit # EMPTY_NODE
    /\ Raised(query_call.outcome, "NotImplementedError",
              "WITH expressions are not implemented yet.")

(***************************************************************************)
(* Expression nodes: claims                                                *)
(***************************************************************************)
\* The Case node was built and its children were evaluated.
CaseEvaluated == node_call.op = "Case.evaluate" /\ node_call.children # <<>>

\* The number of WHENs of the evaluated Case, and its evaluated i-th WHEN,
\* i-th THEN and ELSE.
CaseWhens == (Len(node_call.children) - 1) \div 2
CaseWhen(i) == node_call.children[2 * i - 1]
CaseThen(i) == node_call.children[2 * i]
CaseElse == node_call.children[Len(node_call.children)]

\* The types of the THENs and of the ELSE, None left out.
CaseTypes ==
    ({CaseThen(i).type_ : i \in 1..CaseWhens} \cup {CaseElse.type_}) \ {"None"}

\* C16: a Case with a WHEN that is not BOOLEAN, or whose THEN and ELSE types
\* have no common type, raises ValueError; otherwise it returns, under the
\* common type of the THENs and the ELSE, for every row the THEN of the first
\* WHEN that is true in that row, and the ELSE (NULL without one) where none is.
C16_CaseFirstMatchWins ==
    CaseEvaluated =>
        IF \/ \E i \in 1..CaseWhens : CaseWhen(i).type_ # "BOOLEAN"
           \/ ~(Cardinality(CaseTypes) = 1 \/ CaseTypes = {"INTEGER", "FLOAT"})
        THEN /\ ~node_call.outcome.ok
             /\ node_call.outcome.exc = "ValueError"
        ELSE /\ node_call.outcome.ok
             /\ node_call.outcome.value.type_
                    = (IF Cardinality(CaseTypes) = 1 THEN CHOOSE t \in CaseTypes : TRUE
                       ELSE "FLOAT")
             /\ node_call.outcome.value.series.index = node_call.table.dataframe.index
             /\ DOMAIN node_call.outcome.value.series.data
                    = DOMAIN node_call.table.dataframe.data
             /\ \A r \in DOMAIN node_call.table.dataframe.data :
                    LET true == {i \in 1..CaseWhens : CaseWhen(i).series.data[r] = <<1>>}
                    IN node_call.outcome.value.series.data[r] =
                           IF true = {} THEN CaseElse.series.data[r]
                           ELSE CaseThen(CHOOSE i \in true : \A j \in true : i <= j)
                                    .series.data[r]
             /\ node_call.arguments.else_ = EMPTY_NODE
                    => \A r \in DOMAIN CaseElse.series.data : CaseElse.series.data[r] = NaN

\* C16 witness: a Case of two WHENs without ELSE has returned a column with a
\* row where both WHENs are true and their THENs differ, and a row where none
\* is true, which holds NULL.
C16_Witness ==
    /\ CaseEvaluated
    /\ CaseWhens = 2
    /\ node_call.arguments.else_ = EMPTY_NODE
    /\ node_call.outcome.ok
    /\ \E r \in DOMAIN node_call.table.dataframe.data :
           /\ CaseWhen(1).series.data[r] = <<1>>
           /\ CaseWhen(2).series.data[r] = <<1>>
           /\ CaseThen(1).series.data[r] # CaseThen(2).series.data[r]
    /\ \E r \in DOMAIN node_call.table.dataframe.data :
           /\ CaseWhen(1).series.data[r] = <<0>>
           /\ CaseWhen(2).series.data[r] = <<0>>
           /\ node_call.outcome.value.series.data[r] = NaN

\* C17: Exists on a context of n rows that returns has called its subquery n
\* times, the i-th time with a context whose table holds row i and no other
\* row, and returns a BOOLEAN column over the context's index whose entry i
\* tells whether the i-th call returned a row.
C17_ExistsOncePerSingleRow ==
    (node_call.op = "Exists.evaluate" /\ node_call.outcome.ok)
    => /\ Len(node_call.calls) = Len(node_call.table.dataframe.data)
       /\ \A i \in DOMAIN node_call.calls :
              /\ Len(node_call.calls[i].table.dataframe.data) = 1
              /\ node_call.calls[i].table.dataframe.data[1]
                     = node_call.table.dataframe.data[i]
       /\ node_call.outcome.value.type_ = "BOOLEAN"
       /\ node_call.outcome.value.series.index = node_call.table.dataframe.index
       /\ DOMAIN node_call.outcome.value.series.data = DOMAIN node_call.table.dataframe.data
       /\ \A i \in DOMAIN node_call.calls :
              node_call.outcome.value.series.data[i] = <<1>>
              <=> Len(node_call.calls[i].outcome.value.table.dataframe.data) > 0

\* The row context Exists gave to the i-th call of its subquery, and that
\* context after the call.
RowContext(i) ==
    [create_context(t1, SelectCatalog(node_call.table)).value
        EXCEPT !.table = node_call.calls[i].table]

RowContextAfter(i) ==
    Assigned("outer_context", RowContext(i), node_call.calls[i].assignments)

C18_CreateRejectsUnsupportedCalls ==
    node_call.op = "FunctionCall.create" =>
        IF node_call.function_name \in {"count", "COUNT", "array_agg", "foo"}
        THEN /\ Raised(node_call.outcome, "NotImplementedError", "Function not implemented")
             /\ node_call.outcome.args
                    \in {<<"COUNT">>, <<"ARRAY_AGG">>, <<"FOO">>}
        ELSE IF /\ node_call.function_name \in {"sum", "Sum", "SUM", "min", "MAX"}
                /\ node_call.expression \in {no_arguments, <<>>, <<a, b>>}
        THEN Raised(node_call.outcome, "NotImplementedError",
                    "Aggregating functions are only supported with 1 argument")
        ELSE /\ node_call.outcome.ok
             /\ node_call.outcome.value.k =
                    IF node_call.over_clause # EMPTY_NODE THEN "_AnalyticFunctionCall"
                    ELSE IF node_call.function_name \in {"sum", "Sum", "SUM", "min", "MAX"}
                    THEN "_AggregatingFunctionCall"
                    ELSE "_NonAggregatingFunctionCall"

\* C18 witness: Sum(a, b) OVER (PARTITION BY a) has been refused for its two
\* arguments.
C18_Witness ==
    /\ node_call.op = "FunctionCall.create"
    /\ node_call.function_name = "Sum"
    /\ node_call.expression = <<a, b>>
    /\ node_call.over_clause # EMPTY_NODE
    /\ node_call.over_clause.partition_by = <<a>>
    /\ Raised(node_call.outcome, "NotImplementedError",
              "Aggregating functions are only supported with 1 argument")

\* The row of the table that an entry of the returned column belongs to: the
\* one with the entry's index label.
AnalyticRow(i) ==
    CHOOSE r \in DOMAIN node_call.table.dataframe.index :
        node_call.table.dataframe.index[r] = node_call.outcome.value.series.index[i]

\* The PARTITION BY value and the ORDER BY value of a row of the table, for an
\* OVER clause whose partition and order are columns of t1.
PartitionValue(r) ==
    IF node_call.over_clause.partition_by = no_partition_by THEN <<>>
    ELSE RowValue(node_call.over_clause.partition_by[1], node_call.table.dataframe.data[r])
OrderValue(r) ==
    RowValue(node_call.over_clause.order_by[1].field, node_call.table.dataframe.data[r])

\* C19: an analytic call returns one value for every row of the table;
\* ROW_NUMBER numbers the rows of every partition (all rows without PARTITION
\* BY) 1..N, a row with a smaller ORDER BY value (a larger one under DESC)
\* before one with a larger.
C19_RowNumberPerPartition ==
    node_call.op = "_AnalyticFunctionCall.evaluate" =>
        LET rows == DOMAIN node_call.table.dataframe.data
            entries == DOMAIN node_call.outcome.value.series.data
            number(i) == node_call.outcome.value.series.data[i][1]
            descending == /\ node_call.over_clause.order_by[1].direction # no_direction
                          /\ node_call.over_clause.order_by[1].direction \in {"desc", "DESC"}
        IN /\ node_call.outcome.ok
           /\ entries = rows
           /\ Range(node_call.outcome.value.series.index)
                  = Range(node_call.table.dataframe.index)
           /\ node_call.self.function = "ROW_NUMBER" =>
                  /\ node_call.outcome.value.type_ = "INTEGER"
                  /\ \A i \in entries :
                         number(i) \in 1..Cardinality(
                             {r \in rows : PartitionValue(r) = PartitionValue(AnalyticRow(i))})
                  /\ \A i, j \in entries :
                         (/\ i # j
                          /\ PartitionValue(AnalyticRow(i)) = PartitionValue(AnalyticRow(j)))
                         => number(i) # number(j)
                  /\ node_call.over_clause.order_by # no_order_by =>
                         \A i, j \in entries :
                             (/\ PartitionValue(AnalyticRow(i)) = PartitionValue(AnalyticRow(j))
                              /\ IF descending
                                 THEN OrderValue(AnalyticRow(i)) > OrderValue(AnalyticRow(j))
                                 ELSE OrderValue(AnalyticRow(i)) < OrderValue(AnalyticRow(j)))
                             => number(i) < number(j)

\* C19 witness: ROW_NUMBER() OVER (PARTITION BY b ORDER BY a DESC) has numbered
\* a partition of two rows against the order of the table's rows.
C19_Witness ==
    /\ node_call.op = "_AnalyticFunctionCall.evaluate"
    /\ node_call.self.function = "ROW_NUMBER"
    /\ node_call.over_clause.partition_by = <<b>>
    /\ node_call.over_clause.order_by # no_order_by
    /\ node_call.over_clause.order_by[1] = OrderKey(a, "DESC")
    /\ node_call.outcome.ok
    /\ \E i, j \in DOMAIN node_call.outcome.value.series.data :
           /\ AnalyticRow(i) < AnalyticRow(j)
           /\ OrderValue(AnalyticRow(i)) < OrderValue(AnalyticRow(j))
           /\ PartitionValue(AnalyticRow(i)) = PartitionValue(AnalyticRow(j))
           /\ node_call.outcome.value.series.data[i] = <<2>>
           /\ node_call.outcome.value.series.data[j] = <<1>>

\* The reduction of the values of some rows, in the order of the table.
RECURSIVE SumOfValues(_)
SumOfValues(values) ==
    IF values = <<>> THEN 0 ELSE Head(values) + SumOfValues(Tail(values))

Reduction(function, values) ==
    IF function = "SUM" THEN <<SumOfValues(values)>>
    ELSE IF function = "COUNT" THEN <<Len(values)>>
    ELSE IF function = "ARRAY_AGG" THEN << [i \in DOMAIN values |-> <<values[i]>>] >>
    ELSE IF values = <<>> THEN NaN
    ELSE IF function = "MIN"
    THEN <<CHOOSE x \in Range(values) : \A y \in Range(values) : x <= y>>
    ELSE <<CHOOSE x \in Range(values) : \A y \in Range(values) : y <= x>>

\* The argument's values in the rows of the table whose GROUP BY column holds
\* key, in the order of the table; in all rows without GROUP BY.
AggregatedValues(key) ==
    LET data == node_call.table.dataframe.data
        rows == SelectSeq([r \in DOMAIN data |-> r],
                          LAMBDA r : \/ node_call.group_by = <<>>
                                     \/ RowValue(node_call.group_by[1], data[r]) = key)
    IN [i \in DOMAIN rows |-> RowValue(node_call.self.child, data[rows[i]])]

\* C20: an aggregating call without OVER returns one row in an ungrouped
\* context, whatever the number of rows of the table, and one row per group in
\* a grouped context; each value is the reduction (SUM, MIN, MAX, COUNT,
\* ARRAY_AGG) of the argument over the rows of its own group only.
C20_AggregateOneRowPerGroup ==
    node_call.op = "_AggregatingFunctionCall.evaluate" =>
        LET data == node_call.table.dataframe.data
            result == node_call.outcome.value.series
            keys == {RowValue(node_call.group_by[1], data[r]) : r \in DOMAIN data}
        IN /\ node_call.outcome.ok
           /\ node_call.group_by = <<>> =>
                  /\ Len(result.data) = 1
                  /\ result.data[1] = Reduction(node_call.self.function, AggregatedValues(0))
           /\ node_call.group_by # <<>> =>
                  /\ Len(result.data) = Cardinality(keys)
                  /\ {result.index[i][1] : i \in DOMAIN result.index} = keys
                  /\ \A i \in DOMAIN result.data :
                         result.data[i] = Reduction(node_call.self.function,
                                                    AggregatedValues(result.index[i][1]))

\* SUM, COUNT or ARRAY_AGG of a column of two groups, one of them of two rows
\* that differ in the column.
C20_Witness ==
    /\ node_call.op = "_AggregatingFunctionCall.evaluate"
    /\ node_call.group_by = <<b>>
    /\ node_call.self.child = a
    /\ node_call.outcome.ok
    /\ Len(node_call.outcome.value.series.data) = 2
    /\ \E i \in DOMAIN node_call.outcome.value.series.data :
           /\ Len(AggregatedValues(node_call.outcome.value.series.index[i][1])) = 2
           /\ Cardinality(Range(AggregatedValues(
                   node_call.outcome.value.series.index[i][1]))) = 2

\* The rows of the table whose column b holds key, in the order of the table;
\* all rows without GROUP BY.
CountedRows(key) ==
    LET data == node_call.table.dataframe.data
    IN SelectSeq([r \in DOMAIN data |-> data[r]],
                 LAMBDA row : node_call.group_by = <<>> \/ row[2] = <<key>>)

\* What COUNT of the countee is on some rows.
ExpectedCount(rows) ==
    LET valued == {i \in DOMAIN rows : rows[i][1] # NaN}
    IN IF "str" \in DOMAIN node_call.countee THEN Len(rows)
       ELSE IF node_call.countee.maybe_distinct = "DISTINCT"
       THEN Cardinality({rows[i][1] : i \in valued})
       ELSE Cardinality(valued)

\* C21: COUNT(*) is built as COUNT(1) and gives the number of rows of the
\* table or of the group, COUNT(a) the number of rows where a is not NULL,
\* COUNT(DISTINCT a) the number of distinct non-NULL values of a; a str countee
\* other than '*' raises ValueError and a modifier other than DISTINCT raises
\* NotImplementedError when the call is built.
C21_CountCountsRows ==
    node_call.op = "Count.evaluate" =>
        LET countee == node_call.countee
            created == node_call.created
            result == node_call.outcome.value.series
            keys == {node_call.table.dataframe.data[r][2][1] :
                        r \in DOMAIN node_call.table.dataframe.data}
        IN IF "str" \in DOMAIN countee /\ countee.str # "*"
           THEN ~created.ok /\ created.exc = "ValueError"
           ELSE IF "str" \notin DOMAIN countee
                   /\ countee.maybe_distinct \notin {"DISTINCT", no_modifier}
           THEN ~created.ok /\ created.exc = "NotImplementedError"
           ELSE /\ created.ok
                /\ created.value.k = "_AggregatingFunctionCall"
                /\ created.value.child = IF "str" \in DOMAIN countee THEN Value(1, "INTEGER")
                                          ELSE countee.argument
                /\ node_call.outcome.ok
                /\ node_call.outcome.value.type_ = "INTEGER"
                /\ node_call.group_by = <<>> =>
                       result.data = << <<ExpectedCount(CountedRows(0))>> >>
                /\ node_call.group_by # <<>> =>
                       /\ Len(result.data) = Cardinality(keys)
                       /\ {result.index[i][1] : i \in DOMAIN result.index} = keys
                       /\ \A i \in DOMAIN result.data :
                              result.data[i]
                                  = <<ExpectedCount(CountedRows(result.index[i][1]))>>

\* COUNT(DISTINCT a) GROUP BY b of a group of three rows, a NULL in one and the
\* same value in the other two: 1.
C21_Witness ==
    /\ node_call.op = "Count.evaluate"
    /\ node_call.countee = CounteeTuple("DISTINCT", a)
    /\ node_call.group_by = <<b>>
    /\ node_call.outcome.ok
    /\ \E i \in DOMAIN node_call.outcome.value.series.data :
           LET rows == CountedRows(node_call.outcome.value.series.index[i][1])
           IN /\ Len(rows) = 3
              /\ \E r \in DOMAIN rows : rows[r][1] = NaN
              /\ node_call.outcome.value.series.data[i] = <<1>>

\* C22: evaluating an ARRAY_AGG call with an ORDER BY or a LIMIT modifier
\* raises NotImplementedError, in an ungrouped and in a grouped context, on
\* every table, one of no rows or no groups included.
C22_ArrayAggOrderByLimitRaises ==
    (/\ node_call.op = "Array_agg.evaluate"
     /\ (node_call.self.order_by # no_order_by \/ node_call.self.limit # EMPTY_NODE))
        => /\ ~node_call.outcome.ok
           /\ node_call.outcome.exc = "NotImplementedError"

\* C25: name() of the i-th Selector of the list a Select was built with is
\* the alias if the Selector has one, else the name of its child if the child
\* is a column, else '_f' followed by i.
C25_SelectorName ==
    (node_call.op = "Selector.name" /\ node_call.populated) =>
        LET given == node_call.fields[node_call.i]
        IN /\ node_call.self.position = node_call.i
           /\ node_call.outcome.ok
           /\ node_call.outcome.value =
                  IF given.alias # no_alias THEN given.alias
                  ELSE IF given.child.k = "Field"
                  THEN given.child.path[Len(given.child.path)]
                  ELSE PositionalNames[node_call.i]

\* C25 witness: the third Selector of a list, with no alias and a child
\* without name, after one with an alias and a child with a name.
C25_Witness ==
    /\ node_call.op = "Selector.name"
    /\ node_call.populated
    /\ node_call.i = 3
    /\ node_call.fields[1].alias # no_alias
    /\ node_call.fields[1].child.k = "Field"
    /\ node_call.fields[3].alias = no_alias
    /\ node_call.fields[3].child.k # "Field"
    /\ node_call.outcome = Ok("_f3")

\* C26: name() of a Selector whose position is not populated raises
\* RuntimeError, with or without an alias, whether or not its child has a name.
C26_UnpopulatedSelectorRaises ==
    (node_call.op = "Selector.name" /\ node_call.self.position = no_position) =>
        /\ ~node_call.outcome.ok
        /\ node_call.outcome.exc = "RuntimeError"

\* C27: an array literal without values evaluates to one empty array per row
\* of the context, under the rows' index, typed with the declared array type
\* when one is given, whatever the declared scalar element type.
C27_EmptyArrayPerRow ==
    (node_call.op = "Array.evaluate" /\ node_call.self.empty) =>
        /\ node_call.outcome.ok
        /\ node_call.outcome.value.series.index = node_call.table.dataframe.index
        /\ \A r \in DOMAIN node_call.outcome.value.series.data :
               node_call.outcome.value.series.data[r] = << <<>> >>
        /\ node_call.maybe_type # EMPTY_NODE =>
               node_call.outcome.value.type_ = node_call.maybe_type

\* C28: Case.copy with the children of the node itself builds a Case with
\* the same children: the same WHEN and THEN pairs in the same order, and the
\* same ELSE.
C28_CaseCopyKeepsPairs ==
    node_call.op = "Case.copy" =>
        /\ node_call.outcome.ok
        /\ node_call.outcome.value.children = node_call.self.children

\* C29: InCheck gives a boolean column with the rows and the index of its
\* expression column; under IN a row is true iff the expression equals one of
\* the elements in that row, and NOT IN is the negation row by row; also when
\* a WHERE filter has removed rows of the table.
C29_InCheckRowByRow ==
    (node_call.op = "InCheck.evaluate" /\ node_call.children # <<>>) =>
        /\ node_call.outcome.ok
        /\ node_call.outcome.value.type_ = "BOOLEAN"
        /\ node_call.outcome.value.series.index = node_call.children[1].series.index
        /\ DOMAIN node_call.outcome.value.series.data
              = DOMAIN node_call.children[1].series.data
        /\ \A r \in DOMAIN node_call.children[1].series.data :
               (node_call.outcome.value.series.data[r] = <<1>>)
                  <=> ((node_call.direction = "IN")
                          <=> \E e \in 2..Len(node_call.children) :
                                 node_call.children[e].series.data[r]
                                    = node_call.children[1].series.data[r])

\* C30: Select(...) with GROUP BY N, N an integer literal outside 1..(number
\* of SELECT fields), raises an error; no field is chosen for such an N.
C30_PositionOutOfRangeRejected ==
    (/\ select_new.op = "Select"
     /\ select_new.arguments.group_by # no_group_by
     /\ select_new.arguments.group_by[1].k = "Value"
     /\ select_new.arguments.group_by[1].type_ = "INTEGER"
     /\ select_new.arguments.group_by[1].value \notin 1..Len(select_new.arguments.fields)) =>
        ~select_new.outcome.ok

====
